---- MODULE Spec2Model ----
(***************************************************************************)
(* A model of the aurora package manager (libau): the dependency resolver, *)
(* the transaction planner and the transactional executor of               *)
(* PackageManager, over a small universe of packages and paths.            *)
(***************************************************************************)
EXTENDS Integers, Sequences, FiniteSets, TLC

(***************************************************************************)
(* Bounds of the model.                                                    *)
(***************************************************************************)
\* Transactions the manager process may run, one after the other.
MaxTx == 2
\* Transactions each of two concurrent manager processes may run.
MaxTxEach == 1
\* Filesystem / database operations the environment may make fail.
MaxIoFaults == 1
\* Package scripts that may end in an error.
MaxScriptFails == 1
\* dfs_visit calls after which one resolve is cut off.
MaxCalls == 16

(***************************************************************************)
(* Generic helpers.                                                        *)
(***************************************************************************)
Range(s) == {s[i] : i \in 1..Len(s)}

RECURSIVE Flatten(_)
Flatten(ss) == IF ss = <<>> THEN <<>> ELSE Head(ss) \o Flatten(Tail(ss))

\* The first occurrence of every element, in order.
RECURSIVE Dedup(_)
Dedup(s) ==
    IF s = <<>> THEN <<>>
    ELSE LET r == Dedup(SubSeq(s, 1, Len(s) - 1))
         IN IF s[Len(s)] \in Range(r) THEN r ELSE Append(r, s[Len(s)])

\* std::map / std::set iterate in key order: the byte order of the strings.
SortedNames == <<"app", "extra", "k", "lib", "new", "old", "tool", "u", "zlib">>
SortedPaths == <<"bin", "c1", "c2", "conf1", "conf2", "libso", "newbin", "oldsh",
                 "toolbin", "toolsh", "xbin", "zso">>

Paths == Range(SortedPaths)

\* path.parent_path() of the paths of the universe.
parent_path(path) ==
    CASE path \in {"bin", "newbin", "toolbin", "xbin"} -> "usr/bin"
      [] path \in {"libso", "zso"} -> "usr/lib"
      [] path \in {"toolsh", "oldsh"} -> "usr/share"
      [] OTHER -> "etc"

\* The elements of set S as a sequence in the order of `sorted`.
InOrder(sorted, S) == SelectSeq(sorted, LAMBDA x : x \in S)

(***************************************************************************)
(* Data model: Package and InstalledPackage (package.h).                   *)
(***************************************************************************)
Absent == "absent"
NoScript == ""

\* A version string is the sequence of its dot-separated segments, each a
\* sequence of decimal digits: "1.10" is <<<<1>>, <<1, 0>>>>.
\* std::stoi of a segment of digits (package_manager.cpp lines 224-229).
RECURSIVE stoi(_)
stoi(segment) ==
    IF segment = <<>> THEN 0
    ELSE 10 * stoi(SubSeq(segment, 1, Len(segment) - 1)) + segment[Len(segment)]

\* The getline loops of compare_versions: v1_parts of a version string.
version_parts(version_string) ==
    [k \in 1..Len(version_string) |-> stoi(version_string[k])]

Pkg(name, version, deps, provides, conflicts, replaces, files, pre_i, post_i, pre_r, post_r, checksum) ==
    [name |-> name, version |-> version, deps |-> deps, provides |-> provides,
     conflicts |-> conflicts, replaces |-> replaces, files |-> files,
     pre_install_script |-> pre_i, post_install_script |-> post_i,
     pre_remove_script |-> pre_r, post_remove_script |-> post_r,
     repo_name |-> "", checksum |-> checksum]

\* InstalledPackage : Package plus owned_files, as a row of
\* installed_packages gives it back: the table has no checksum column, and
\* its repo_name column is bound to the pre_remove_script member (part_008
\* lines 70-86, 113-130, 162-196).
Installed(pkg, owned) ==
    [name |-> pkg.name, version |-> pkg.version, deps |-> pkg.deps,
     provides |-> pkg.provides, conflicts |-> pkg.conflicts,
     replaces |-> pkg.replaces,
     pre_install_script |-> pkg.pre_install_script,
     post_install_script |-> pkg.post_install_script,
     pre_remove_script |-> pkg.pre_remove_script,
     post_remove_script |-> pkg.post_remove_script,
     repo_name |-> "", checksum |-> "", owned_files |-> owned]

\* The packages of the universe as their descriptors give them, checksum
\* included.
lib  == Pkg("lib", <<1>>, <<>>, <<>>, <<>>, <<>>, <<"libso">>,
            NoScript, NoScript, NoScript, NoScript, "lib-1")
zlib == Pkg("zlib", <<1>>, <<>>, <<>>, <<>>, <<>>, <<"zso">>,
            NoScript, NoScript, NoScript, NoScript, "zlib-1")
tool == Pkg("tool", <<1>>, <<"lib">>, <<>>, <<>>, <<>>, <<"toolsh", "toolbin">>,
            "toolsh", "toolsh", NoScript, NoScript, "tool-1")
app1 == Pkg("app", <<1>>, <<>>, <<>>, <<>>, <<>>, <<"bin", "conf1">>,
            NoScript, NoScript, "c2", NoScript, "app-1")
app2 == Pkg("app", <<2>>, <<"zlib">>, <<>>, <<>>, <<>>, <<"bin", "conf2">>,
            NoScript, NoScript, NoScript, NoScript, "app-2")
old  == Pkg("old", <<1>>, <<>>, <<>>, <<>>, <<>>, <<"c1", "oldsh">>,
            NoScript, NoScript, "oldsh", "oldsh", "old-1")
new  == Pkg("new", <<1>>, <<>>, <<>>, <<>>, <<"old">>, <<"newbin", "c2">>,
            NoScript, NoScript, NoScript, NoScript, "new-1")

\* A package that ships a path `old` ships too; it is in the repository
\* and also at hand as a package file on the local disk.
extra == Pkg("extra", <<1>>, <<>>, <<>>, <<>>, <<>>, <<"xbin", "c1">>,
             NoScript, NoScript, NoScript, NoScript, "extra-1")

\* An older release of lib, as an earlier sync may have left it.
lib0 == Pkg("lib", <<0>>, <<>>, <<>>, <<>>, <<>>, <<"libso">>,
            NoScript, NoScript, NoScript, NoScript, "lib-0")

\* A release of old that provides the virtual name lib.
old_lib == Pkg("old", <<1, 1>>, <<>>, <<"lib">>, <<>>, <<>>, <<"c1", "oldsh">>,
               NoScript, NoScript, "oldsh", "oldsh", "old-1.1")

\* The version strings of the update planner's universe: 1.0, 1.0.0, 1.9,
\* 1.09, 1.10 and 2.
VersionStrings ==
    {<<<<1>>, <<0>>>>, <<<<1>>, <<0>>, <<0>>>>, <<<<1>>, <<9>>>>, <<<<1>>, <<0, 9>>>>,
     <<<<1>>, <<1, 0>>>>, <<<<2>>>>}

\* Package u in the release `version_string` shipping `files`, and a
\* package k that no repository offers.
Release(version_string, files) ==
    Pkg("u", version_parts(version_string), <<>>, <<>>, <<>>, <<>>, files,
        NoScript, NoScript, NoScript, NoScript, "u")

keep == Pkg("k", <<1>>, <<>>, <<>>, <<>>, <<>>, <<"c1">>,
            NoScript, NoScript, NoScript, NoScript, "k-1")

\* What a release of u may ship: its program alone, or also a path that k
\* owns, or also a path that may lie unowned on the root.
ReleaseFiles == {<<"xbin">>, <<"xbin", "c1">>, <<"xbin", "c2">>}

\* The archives that exist, each under its name and version.  A file
\* written from an archive carries the archive's digest as its content.
Archives ==
    {lib, lib0, zlib, tool, app1, app2, old, old_lib, new, extra, keep}
       \cup {Release(v, f) : v \in VersionStrings, f \in ReleaseFiles}

ArchiveDigest(pkg) ==
    (CHOOSE a \in Archives : a.name = pkg.name /\ a.version = pkg.version).checksum

\* A package written to repo_packages and read back (to_db and from_db,
\* part_008 lines 198-227): the row has no checksum column.
from_db(pkg) == [pkg EXCEPT !.checksum = ""]

\* update_all tags what it parsed with the repository's name (part_007
\* lines 160-163).
Tagged(parsed, repo_name) ==
    [k \in 1..Len(parsed) |-> [parsed[k] EXCEPT !.repo_name = repo_name]]

Catalogued(parsed, repo_name) ==
    [k \in 1..Len(parsed) |-> from_db(Tagged(parsed, repo_name)[k])]

\* The available catalog after a sync of the indexes the mirrors serve.
RepoIndex == Catalogued(<<lib, zlib, tool>>, "core") \o Catalogued(<<app2, new, extra>>, "extra")

\* What may be installed when the model starts, each from its own archive.
InitiallyInstalled == {<<>>, <<app1>>, <<old>>, <<app1, old>>}

\* Unowned files that may lie on the root when the model starts.
InitialStrays == {{}, {"c2"}}

\* Requests the front end may make.
InstallRequests == {<<"tool">>, <<"new">>, <<"new", "tool">>, <<"extra">>}
RemoveRequests == {<<"old">>, <<"app">>, <<"lib">>, <<"lib", "tool">>}
LocalPackages == {extra, tool}

(***************************************************************************)
(* State.                                                                  *)
(***************************************************************************)
Procs == {"pm1", "pm2"}

VARIABLES
    fs,                 \* the live root: path -> content, or Absent
    installed,          \* table installed_packages, in row order
    available,          \* table repo_packages, in row order
    pc,                 \* per manager process: its position
    plan,               \* per process: the Transaction being executed
    cur,                \* per process: loop indices [i, j]
    backup,             \* per process: tx_backup_dir, path -> content
    journal,            \* per process: FileSystemJournal
    completed_installs, \* per process: records for the database commit
    result,             \* per process: what the last operation returned
    log,                \* per process: what the transaction did, in order
    pre,                \* per process: the operation it runs, its force
                        \* flag and package names, and fs and installed
                        \* when it began
    thrown,             \* per process: the TransactionError being handled
    txLeft,             \* per process: transactions it may still start
    ioFaultsLeft,       \* I/O failures the environment may still cause
    scriptFailsLeft,    \* script failures that may still happen
    downloader,         \* a Downloader: its jobs and where download_all is
    dirs                \* the directories that exist under the live root

vars == <<fs, installed, available, pc, plan, cur, backup, journal,
          completed_installs, result, log, pre, thrown, txLeft, ioFaultsLeft,
          scriptFailsLeft, downloader, dirs>>

(***************************************************************************)
(* Database (database.h; part_008).                                        *)
(***************************************************************************)
list_installed_packages(db) == db

get_installed_package(db, name) ==
    SelectSeq(db, LAMBDA r : r.name = name)

is_package_installed(db, name) == get_installed_package(db, name) # <<>>

find_repo_package(repo, name) == SelectSeq(repo, LAMBDA r : r.name = name)

list_all_repo_packages(repo) == repo

\* All removals and all additions in one database transaction.
perform_transactional_update(db, packages_to_add, package_names_to_remove) ==
    LET kept == SelectSeq(db, LAMBDA r :
                    /\ r.name \notin Range(package_names_to_remove)
                    /\ \A k \in 1..Len(packages_to_add) :
                           packages_to_add[k].name # r.name)
    IN kept \o packages_to_add

\* Database::sync_repo_packages (part_008, lines 275-301): remove_all and
\* one replace per package inside one storage transaction; rows are keyed
\* by name, so the last package of a name stays.  An exception rolls the
\* transaction back and is only logged.
sync_repo_packages(repo, packages, storage_throws) ==
    IF storage_throws THEN repo
    ELSE LET idx == [k \in 1..Len(packages) |-> k]
             last == SelectSeq(idx, LAMBDA k :
                         \A j \in (k + 1)..Len(packages) : packages[j].name # packages[k].name)
         IN [k \in 1..Len(last) |-> from_db(packages[last[k]])]

(***************************************************************************)
(* RepositoryManager (part_007).                                           *)
(***************************************************************************)
\* The configured repositories in the order of the std::map that holds
\* them, each with its mirror list; `void` has a section but no url line.
Repositories == <<"core", "extra", "void">>

mirror_urls(repo_name) == IF repo_name \in {"core", "extra"} THEN <<repo_name>> ELSE <<>>

\* One entry of a repo.yaml sequence: a map with the keys `present`,
\* whose values are those of `value`.
RequiredFields == <<"name", "version", "arch", "checksum">>
YamlNode(value, missing) == [present |-> Range(RequiredFields) \ missing, value |-> value]

\* Entries that lack a required field.
broken == Pkg("broken", <<1>>, <<>>, <<>>, <<>>, <<>>, <<"bin">>,
              NoScript, NoScript, NoScript, NoScript, "broken-1")
unsigned == Pkg("unsigned", <<1>>, <<>>, <<"lib">>, <<>>, <<>>, <<"libso">>,
                NoScript, NoScript, NoScript, NoScript, "")

\* What the mirrors of a repository serve as repo.yaml.
ServedIndex(repo_name) ==
    IF repo_name = "core"
    THEN <<YamlNode(lib, {}), YamlNode(zlib, {}), YamlNode(tool, {})>>
    ELSE IF repo_name = "extra"
    THEN <<YamlNode(app2, {}), YamlNode(broken, {"version"}), YamlNode(new, {}),
           YamlNode(unsigned, {"checksum"}), YamlNode(extra, {})>>
    ELSE <<>>

\* Parser::parse_package_node (part_005, lines 39-84): the required fields
\* are asked for in turn.
parse_package_node(node) ==
    IF \E k \in 1..Len(RequiredFields) : RequiredFields[k] \notin node.present
    THEN [err |-> "MissingRequiredField", pkg |-> node.value]
    ELSE [err |-> "", pkg |-> node.value]

\* Parser::parse_repository_index on a file that loads as a sequence, where
\* one bad entry fails the index.
parse_repository_index_Strict(root) ==
    IF \E k \in 1..Len(root) : parse_package_node(root[k]).err # ""
    THEN [err |-> "InvalidFormat", packages |-> <<>>]
    ELSE [err |-> "", packages |-> [k \in 1..Len(root) |-> root[k].value]]

\* Parser::parse_repository_index (part_005, lines 100-129) on a file that
\* loads as a sequence: entries that do not parse are skipped.
parse_repository_index(root) ==
    LET good == SelectSeq(root, LAMBDA node : parse_package_node(node).err = "")
    IN [err |-> "", packages |-> [k \in 1..Len(good) |-> parse_package_node(good[k]).pkg]]

\* How the download, the signature check and the parse of one repository
\* may end.
RepoOutcomes == {"ok", "download_failed", "bad_signature", "parse_failed"}
SyncOutcomes == [Range(Repositories) -> RepoOutcomes]
AllFine == [n \in Range(Repositories) |-> "ok"]

\* One turn of the loop of update_all (lines 91-167) on the accumulator
\* [all_packages, all_succeeded].
update_repo(acc, repo_name, skip_gpg_check, outcome) ==
    IF mirror_urls(repo_name) = <<>> THEN acc
    ELSE IF outcome = "download_failed" THEN [acc EXCEPT !.all_succeeded = FALSE]
    ELSE IF ~skip_gpg_check /\ outcome = "bad_signature" THEN [acc EXCEPT !.all_succeeded = FALSE]
    ELSE IF outcome = "parse_failed" THEN [acc EXCEPT !.all_succeeded = FALSE]
    ELSE LET parse_result == parse_repository_index(ServedIndex(repo_name))
         IN IF parse_result.err # "" THEN [acc EXCEPT !.all_succeeded = FALSE]
            ELSE [acc EXCEPT !.all_packages = @ \o Tagged(parse_result.packages, repo_name)]

RECURSIVE update_repos(_, _, _, _)
update_repos(acc, k, skip_gpg_check, outcomes) ==
    IF k > Len(Repositories) THEN acc
    ELSE update_repos(update_repo(acc, Repositories[k], skip_gpg_check, outcomes[Repositories[k]]),
                      k + 1, skip_gpg_check, outcomes)

\* The final database sync of update_all (lines 169-175), where every
\* index is written whatever happened to the others.
final_sync_Partial(acc, repo, storage_throws) ==
    IF acc.all_packages # <<>>
    THEN sync_repo_packages(repo, acc.all_packages, storage_throws)
    ELSE repo

\* The final database sync of update_all (lines 169-175).
final_sync(acc, repo, storage_throws) ==
    IF acc.all_succeeded /\ acc.all_packages # <<>>
    THEN sync_repo_packages(repo, acc.all_packages, storage_throws)
    ELSE repo

\* RepositoryManager::update_all (lines 81-178): the flag it returns and
\* the catalog it leaves.
update_all(skip_gpg_check, outcomes, repo, storage_throws) ==
    LET acc == update_repos([all_packages |-> <<>>, all_succeeded |-> TRUE], 1,
                            skip_gpg_check, outcomes)
    IN [ok |-> acc.all_succeeded, repo |-> final_sync(acc, repo, storage_throws)]

\* PackageManager::sync_database (package_manager.cpp lines 870-873) of a
\* manager constructed with m_skip_crypto_checks.
sync_database(m_skip_crypto_checks, outcomes, repo, storage_throws) ==
    update_all(m_skip_crypto_checks, outcomes, repo, storage_throws)

\* The sync that opens plan_update_transaction (line 772): update_all()
\* with the default argument skip_gpg_check = false of repository.h.
plan_update_sync(m_skip_crypto_checks, outcomes, repo) ==
    update_all(FALSE, outcomes, repo, FALSE)

(***************************************************************************)
(* DependencyResolver (part_008, lines 325-462).                           *)
(***************************************************************************)
\* The resolver's working state: sorted_list, visiting, visited, the error
\* of the visit that failed ("" while none has), and the number of
\* dfs_visit calls made so far.
ResolveStart ==
    [sorted_list |-> <<>>, visiting |-> {}, visited |-> {}, err |-> "", calls |-> 0]

\* Mutation of already_satisfied: the installed packages are not looked at.
already_satisfied_IgnoresInstalled(dep_name, st, db) ==
    \/ dep_name \in st.visited
    \/ \E k \in 1..Len(st.sorted_list) :
          \/ st.sorted_list[k].name = dep_name
          \/ dep_name \in Range(st.sorted_list[k].provides)

\* STEP 1 of dfs_visit: the dependency is already satisfied.
already_satisfied(dep_name, st, db) ==
    \/ dep_name \in st.visited
    \/ \E k \in 1..Len(st.sorted_list) :
          \/ st.sorted_list[k].name = dep_name
          \/ dep_name \in Range(st.sorted_list[k].provides)
    \/ \E k \in 1..Len(db) :
          \/ db[k].name = dep_name
          \/ dep_name \in Range(db[k].provides)

\* Mutation of select_provider: the first package that has the name or
\* provides it is taken.
select_provider_FirstMatch(dep_name, repo) ==
    LET candidates == SelectSeq(repo, LAMBDA r : r.name = dep_name \/ dep_name \in Range(r.provides))
    IN IF candidates = <<>> THEN [err |-> "DependencyNotFound", pkg |-> <<>>]
       ELSE [err |-> "", pkg |-> <<candidates[1]>>]

\* Mutation of select_provider: a package of that name counts like any
\* other provider.
select_provider_NoPreference(dep_name, repo) ==
    LET candidates == SelectSeq(repo, LAMBDA r : r.name = dep_name \/ dep_name \in Range(r.provides))
    IN IF Len(candidates) = 1 THEN [err |-> "", pkg |-> candidates]
       ELSE IF candidates = <<>> THEN [err |-> "DependencyNotFound", pkg |-> <<>>]
       ELSE [err |-> "AmbiguousProvider", pkg |-> <<>>]

\* STEP 2 and 3 of dfs_visit: the provider chosen for a dependency, as
\* [err, pkg]; pkg is a sequence of at most one package.
select_provider(dep_name, repo) ==
    LET real_package_provider == SelectSeq(list_all_repo_packages(repo), LAMBDA r : r.name = dep_name)
        virtual_providers == SelectSeq(list_all_repo_packages(repo), LAMBDA r : r.name # dep_name /\ dep_name \in Range(r.provides))
    IN IF real_package_provider # <<>>
       THEN [err |-> "", pkg |-> <<real_package_provider[Len(real_package_provider)]>>]
       ELSE IF Len(virtual_providers) = 1
       THEN [err |-> "", pkg |-> virtual_providers]
       ELSE IF virtual_providers = <<>>
       THEN [err |-> "DependencyNotFound", pkg |-> <<>>]
       ELSE [err |-> "AmbiguousProvider", pkg |-> <<>>]

\* Mutation of on_cycle: a provider found on the DFS stack is taken as
\* satisfied.
on_cycle_Accepts(st) == st

\* The provider is on the DFS stack (lines 441-444).
on_cycle(st) == [st EXCEPT !.err = "CircularDependency"]

\* Mutation of enter: the provider is not put on the DFS stack.
enter_Forgets(st, name) == st

\* visiting.insert(provider_pkg.name) (line 446).
enter(st, name) == [st EXCEPT !.visiting = @ \cup {name}]

RECURSIVE dfs_visit(_, _, _, _)
RECURSIVE visit_deps(_, _, _, _, _)

\* Mutation of visit_deps: the dependencies are not visited.
visit_deps_Skips(deps, k, st, db, repo) == st

\* The loop over provider_pkg.deps inside dfs_visit, from index k.
visit_deps(deps, k, st, db, repo) ==
    IF k > Len(deps) \/ st.err # "" THEN st
    ELSE visit_deps(deps, k + 1, dfs_visit(deps[k], st, db, repo), db, repo)

\* A visit beyond MaxCalls calls is cut off and marked "Diverged", an
\* answer the code does not have.
dfs_visit(dep_name, called, db, repo) ==
    LET st == [called EXCEPT !.calls = @ + 1]
    IN
    IF st.calls > MaxCalls THEN [st EXCEPT !.err = "Diverged"]
    ELSE IF already_satisfied(dep_name, st, db) THEN st
    ELSE LET sel == select_provider(dep_name, repo)
         IN IF sel.err # "" THEN [st EXCEPT !.err = sel.err]
            ELSE LET provider_pkg == sel.pkg[1]
                 IN IF provider_pkg.name \in st.visited THEN st
                    ELSE IF provider_pkg.name \in st.visiting
                    THEN on_cycle(st)
                    ELSE LET entered == enter(st, provider_pkg.name)
                             after == visit_deps(provider_pkg.deps, 1, entered, db, repo)
                         IN IF after.err # ""
                            THEN [after EXCEPT !.visiting = @ \ {provider_pkg.name}]
                            ELSE [after EXCEPT
                                    !.visiting = @ \ {provider_pkg.name},
                                    !.visited = @ \cup {provider_pkg.name},
                                    !.sorted_list = Append(@, provider_pkg)]

RECURSIVE resolve_from(_, _, _, _, _)
resolve_from(package_names, k, st, db, repo) ==
    IF k > Len(package_names) \/ st.err # "" THEN st
    ELSE IF package_names[k] \in st.visited
    THEN resolve_from(package_names, k + 1, st, db, repo)
    ELSE resolve_from(package_names, k + 1, dfs_visit(package_names[k], st, db, repo), db, repo)

\* resolve: [err, sorted_list]; the list counts only when err = "".
resolve(package_names, db, repo) == resolve_from(package_names, 1, ResolveStart, db, repo)

(***************************************************************************)
(* PackageManager::compare_versions (package_manager.cpp, lines 218-241).  *)
(* A version is the sequence of its dot-separated segments as integers.    *)
(***************************************************************************)
\* std::vector::resize(max_len, 0)
resize(parts, max_len) == [k \in 1..max_len |-> IF k <= Len(parts) THEN parts[k] ELSE 0]

\* Mutation of compare_versions: the shorter version is not zero-extended,
\* so that of two versions with a common prefix the longer is the greater.
compare_versions_NoPadding(v1, v2) ==
    LET min_len == IF Len(v1) <= Len(v2) THEN Len(v1) ELSE Len(v2)
        differing == {k \in 1..min_len : v1[k] # v2[k]}
    IN IF differing = {}
       THEN (IF Len(v1) < Len(v2) THEN -1 ELSE IF Len(v1) > Len(v2) THEN 1 ELSE 0)
       ELSE LET k == CHOOSE d \in differing : \A e \in differing : d <= e
            IN IF v1[k] < v2[k] THEN -1 ELSE 1

\* Mutation of compare_versions: every two versions compare equal.
compare_versions_Equal(v1, v2) == 0

compare_versions(v1, v2) ==
    LET max_len == IF Len(v1) >= Len(v2) THEN Len(v1) ELSE Len(v2)
        v1_parts == resize(v1, max_len)
        v2_parts == resize(v2, max_len)
        differing == {k \in 1..max_len : v1_parts[k] # v2_parts[k]}
    IN IF differing = {} THEN 0
       ELSE LET k == CHOOSE d \in differing : \A e \in differing : d <= e
            IN IF v1_parts[k] < v2_parts[k] THEN -1 ELSE 1

(***************************************************************************)
(* The planner (package_manager.cpp).                                      *)
(***************************************************************************)
EmptyPlan == [to_install |-> <<>>, to_remove |-> <<>>]

is_empty(t) == t.to_install = <<>> /\ t.to_remove = <<>>

\* std::filesystem::exists(path) || is_symlink(path)
exists(root, path) == root[path] # Absent

\* Mutation of all_owned_files: the ownership map is empty.
all_owned_files_None(records) == {}

\* The keys of the map all_owned_files built from a list of installed records.
all_owned_files(records) == UNION {Range(records[k].owned_files) : k \in 1..Len(records)}

\* Mutation of replaced_records: `replaces` is ignored.
replaced_records_None(pkgs, db) == <<>>

\* The records the packages of `pkgs` replace, in order, each once.
replaced_records(pkgs, db) ==
    LET names == Dedup(Flatten([k \in 1..Len(pkgs) |-> pkgs[k].replaces]))
    IN Flatten([k \in 1..Len(names) |-> get_installed_package(db, names[k])])

\* plan_install_transaction (lines 649-750): [err, plan].
plan_install_transaction(package_names, force, db, repo, root) ==
    LET resolved == resolve(package_names, db, repo)
        packages_to_install == resolved.sorted_list
        owned == all_owned_files(list_installed_packages(db))
        file_conflict ==
            \E k \in 1..Len(packages_to_install) :
              \E f \in Range(packages_to_install[k].files) :
                 f \in owned \/ exists(root, f)
        pkg_conflict ==
            \E k \in 1..Len(packages_to_install) :
              \E c \in Range(packages_to_install[k].conflicts) :
                 is_package_installed(db, c)
    IN IF resolved.err # "" THEN [err |-> "ResolutionFailed", plan |-> EmptyPlan]
       ELSE IF packages_to_install = <<>> THEN [err |-> "", plan |-> EmptyPlan]
       ELSE IF file_conflict /\ ~force THEN [err |-> "FileConflict", plan |-> EmptyPlan]
       ELSE IF pkg_conflict /\ ~force THEN [err |-> "ConflictDetected", plan |-> EmptyPlan]
       ELSE [err |-> "",
             plan |-> [to_install |-> packages_to_install,
                       to_remove |-> replaced_records(packages_to_install, db)]]

\* is_dependency_satisfied (lines 269-284).
is_dependency_satisfied(dep_name, db) ==
    \/ is_package_installed(db, dep_name)
    \/ \E k \in 1..Len(db) : dep_name \in Range(db[k].provides)

\* The pre-flight checks and the plan of install_local_package (lines
\* 357-396) for the package whose metadata was read: [err, plan].
plan_install_local(pkg, force, db) ==
    IF is_package_installed(db, pkg.name)
    THEN [err |-> "PackageAlreadyInstalled", plan |-> EmptyPlan]
    ELSE IF ~force /\ \E d \in Range(pkg.deps) : ~is_dependency_satisfied(d, db)
    THEN [err |-> "ResolutionFailed", plan |-> EmptyPlan]
    ELSE IF ~force /\ \E c \in Range(pkg.conflicts) : is_package_installed(db, c)
    THEN [err |-> "FileConflict", plan |-> EmptyPlan]
    ELSE [err |-> "",
          plan |-> [to_install |-> <<pkg>>,
                    to_remove |-> Flatten([k \in 1..Len(pkg.replaces) |->
                                     get_installed_package(db, pkg.replaces[k])])]]

\* Mutation of plan_remove_transaction: the packages removed together are
\* checked against each other.
plan_remove_transaction_ChecksTogether(package_names, force, db) ==
    LET not_installed(k) == ~is_package_installed(db, package_names[k])
        required(k) ==
            \E o \in 1..Len(db) :
               /\ db[o].name # package_names[k]
               /\ package_names[k] \in Range(db[o].deps)
        refused(k) == not_installed(k) \/ (required(k) /\ ~force)
        bad == {k \in 1..Len(package_names) : refused(k)}
    IN IF bad = {}
       THEN [err |-> "",
             plan |-> [to_install |-> <<>>,
                       to_remove |-> Flatten([k \in 1..Len(package_names) |->
                                        get_installed_package(db, package_names[k])])]]
       ELSE LET k == CHOOSE b \in bad : \A c \in bad : b <= c
            IN [err |-> IF not_installed(k) THEN "PackageNotInstalled" ELSE "DependencyViolation",
                plan |-> EmptyPlan]

\* plan_remove_transaction (lines 286-325): [err, plan].
plan_remove_transaction(package_names, force, db) ==
    LET targets_to_remove == Range(package_names)
        not_installed(k) == ~is_package_installed(db, package_names[k])
        required(k) ==
            \E o \in 1..Len(db) :
               /\ db[o].name \notin targets_to_remove
               /\ package_names[k] \in Range(db[o].deps)
        refused(k) == not_installed(k) \/ (required(k) /\ ~force)
        bad == {k \in 1..Len(package_names) : refused(k)}
    IN IF bad = {}
       THEN [err |-> "",
             plan |-> [to_install |-> <<>>,
                       to_remove |-> Flatten([k \in 1..Len(package_names) |->
                                        get_installed_package(db, package_names[k])])]]
       ELSE LET k == CHOOSE b \in bad : \A c \in bad : b <= c
            IN [err |-> IF not_installed(k) THEN "PackageNotInstalled" ELSE "DependencyViolation",
                plan |-> EmptyPlan]

\* plan_update_transaction after its repository sync (lines 777-843):
\* [err, plan].  targets_to_install is a std::map keyed by package name.
plan_update_transaction(db, repo) ==
    LET upgradable(r) ==
            /\ find_repo_package(repo, r.name) # <<>>
            /\ compare_versions(find_repo_package(repo, r.name)[1].version, r.version) > 0
        to_remove == SelectSeq(list_installed_packages(db), upgradable)
        upgrades == [k \in 1..Len(to_remove) |-> find_repo_package(repo, to_remove[k].name)[1]]
        new_dependencies_to_resolve == Flatten([k \in 1..Len(upgrades) |-> upgrades[k].deps])
        resolved == resolve(new_dependencies_to_resolve, db, repo)
        \* a resolved dependency overwrites an upgrade of the same name
        target(n) ==
            LET r == SelectSeq(resolved.sorted_list, LAMBDA q : q.name = n)
                u == SelectSeq(upgrades, LAMBDA q : q.name = n)
            IN IF r # <<>> THEN r[Len(r)] ELSE u[Len(u)]
        target_names == {upgrades[k].name : k \in 1..Len(upgrades)}
                          \cup {resolved.sorted_list[k].name : k \in 1..Len(resolved.sorted_list)}
        ordered == InOrder(SortedNames, target_names)
        targets_to_install == [k \in 1..Len(ordered) |-> target(ordered[k])]
        removing_pkg_names == {to_remove[k].name : k \in 1..Len(to_remove)}
        owned == all_owned_files(SelectSeq(list_installed_packages(db), LAMBDA r : r.name \notin removing_pkg_names))
        file_conflict ==
            \E k \in 1..Len(targets_to_install) :
              \E f \in Range(targets_to_install[k].files) : f \in owned
    IN IF to_remove = <<>> THEN [err |-> "", plan |-> EmptyPlan]
       ELSE IF resolved.err # "" THEN [err |-> "ResolutionFailed", plan |-> EmptyPlan]
       ELSE IF file_conflict THEN [err |-> "FileConflict", plan |-> EmptyPlan]
       ELSE [err |-> "", plan |-> [to_install |-> targets_to_install, to_remove |-> to_remove]]


(***************************************************************************)
(* The environment: which operations may fail.                             *)
(***************************************************************************)
\* TRUE: the filesystem or database operation fails.
Faults == IF ioFaultsLeft > 0 THEN {FALSE, TRUE} ELSE {FALSE}

\* TRUE: the script runs to completion.
ScriptOutcomes == IF scriptFailsLeft > 0 THEN {TRUE, FALSE} ELSE {TRUE}

Event(ev, pkg, path) == [ev |-> ev, pkg |-> pkg, path |-> path]

EmptyDir == [f \in Paths |-> Absent]
EmptyJournal == [new_files_committed |-> <<>>, old_files_backed_up |-> {}]
StartCursor == [i |-> 1, j |-> 1]

\* The root on which exactly the files of `records` and the strays lie.
RootOf(records, strays) ==
    [f \in Paths |->
        IF \E k \in 1..Len(records) : f \in Range(records[k].owned_files)
        THEN ArchiveDigest(CHOOSE r \in Range(records) : f \in Range(r.owned_files))
        ELSE IF f \in strays THEN "stray" ELSE Absent]

InitWith(procs, db, repo, strays, tx, io, sc) ==
    /\ installed = db
    /\ fs = RootOf(db, strays)
    /\ available = repo
    /\ pc = [p \in Procs |-> "idle"]
    /\ plan = [p \in Procs |-> EmptyPlan]
    /\ cur = [p \in Procs |-> StartCursor]
    /\ backup = [p \in Procs |-> EmptyDir]
    /\ journal = [p \in Procs |-> EmptyJournal]
    /\ completed_installs = [p \in Procs |-> <<>>]
    /\ result = [p \in Procs |-> "none"]
    /\ log = [p \in Procs |-> <<>>]
    /\ pre = [p \in Procs |-> [op |-> "none", force |-> FALSE, names |-> <<>>,
                                skip_crypto_checks |-> FALSE,
                                fs |-> RootOf(db, strays), installed |-> db, available |-> repo]]
    /\ thrown = [p \in Procs |-> ""]
    /\ txLeft = [p \in Procs |-> IF p \in procs THEN tx ELSE 0]
    /\ ioFaultsLeft = io
    /\ scriptFailsLeft = sc
    /\ downloader = [pc |-> "idle", jobs |-> <<>>, still_running |-> 0, all_ok |-> TRUE]
    /\ dirs = {parent_path(f) : f \in {g \in Paths : RootOf(db, strays)[g] # Absent}}

\* One manager process; the environment may inject failures.
Init ==
    \E db \in InitiallyInstalled, strays \in InitialStrays :
        InitWith({"pm1"}, [k \in 1..Len(db) |-> Installed(db[k], db[k].files)],
                 RepoIndex, strays, MaxTx, MaxIoFaults, MaxScriptFails)

(***************************************************************************)
(* The front-end operations up to execute_transaction.                     *)
(***************************************************************************)
\* What a process holds between two operations.
Fresh(p, op, force, names, skip_crypto_checks) ==
    /\ cur' = [cur EXCEPT ![p] = StartCursor]
    /\ journal' = [journal EXCEPT ![p] = EmptyJournal]
    /\ completed_installs' = [completed_installs EXCEPT ![p] = <<>>]
    /\ log' = [log EXCEPT ![p] = <<>>]
    /\ thrown' = [thrown EXCEPT ![p] = ""]
    /\ pre' = [pre EXCEPT ![p] = [op |-> op, force |-> force, names |-> names,
                                    skip_crypto_checks |-> skip_crypto_checks,
                                    fs |-> fs, installed |-> installed,
                                    available |-> available]]
    /\ txLeft' = [txLeft EXCEPT ![p] = @ - 1]

\* A planner's answer [err, plan] leads to `next` or ends the operation.
Planned(p, r, next) ==
    /\ plan' = [plan EXCEPT ![p] = r.plan]
    /\ pc' = [pc EXCEPT ![p] = IF r.err = "" /\ ~is_empty(r.plan) THEN next ELSE "done"]
    /\ result' = [result EXCEPT ![p] =
                    IF r.err # "" THEN r.err ELSE IF is_empty(r.plan) THEN "ok" ELSE "none"]

\* PackageManager::install (lines 590-647), up to prepare_transaction_assets.
Install(p) ==
    /\ pc[p] = "idle" /\ txLeft[p] > 0
    /\ \E package_names \in InstallRequests, force \in BOOLEAN, skip_crypto_checks \in BOOLEAN :
          /\ Planned(p, plan_install_transaction(package_names, force, installed, available, fs), "prepare")
          /\ Fresh(p, "install", force, package_names, skip_crypto_checks)
    /\ UNCHANGED <<fs, installed, available, backup, ioFaultsLeft, scriptFailsLeft, downloader, dirs>>

\* au::verify_file_checksum (crypto.cpp lines 15-44) on a file whose
\* SHA-256 is `computed_hash`.
verify_file_checksum(computed_hash, expected_checksum) == computed_hash = expected_checksum

\* What may be wrong with the package file handed to install_local_package:
\* no .AURORA_META in it, metadata that does not parse, content whose
\* SHA-256 is not the checksum of its metadata.
LocalDamage ==
    IF ioFaultsLeft > 0 THEN {"none", "no_meta", "bad_meta", "bad_digest"} ELSE {"none"}

\* Mutation of install_local_preflight: force also waives the integrity
\* check.
install_local_preflight_ForceSkips(pkg, force, skip_crypto_checks, damage, db) ==
    IF damage = "no_meta" THEN [err |-> "ExtractionFailed", plan |-> EmptyPlan]
    ELSE IF damage = "bad_meta" THEN [err |-> "ResolutionFailed", plan |-> EmptyPlan]
    ELSE IF /\ ~skip_crypto_checks /\ ~force
            /\ ~verify_file_checksum(IF damage = "bad_digest" THEN "damaged" ELSE pkg.checksum,
                                     pkg.checksum)
         THEN [err |-> "ChecksumMismatch", plan |-> EmptyPlan]
    ELSE plan_install_local(pkg, force, db)

\* install_local_package up to the plan (lines 327-392): metadata,
\* integrity check unless m_skip_crypto_checks, pre-flight checks.
install_local_preflight(pkg, force, skip_crypto_checks, damage, db) ==
    IF damage = "no_meta" THEN [err |-> "ExtractionFailed", plan |-> EmptyPlan]
    ELSE IF damage = "bad_meta" THEN [err |-> "ResolutionFailed", plan |-> EmptyPlan]
    ELSE IF /\ ~skip_crypto_checks
            /\ ~verify_file_checksum(IF damage = "bad_digest" THEN "damaged" ELSE pkg.checksum,
                                     pkg.checksum)
         THEN [err |-> "ChecksumMismatch", plan |-> EmptyPlan]
    ELSE plan_install_local(pkg, force, db)

\* PackageManager::install_local_package (lines 327-402), up to
\* execute_transaction.
InstallLocal(p) ==
    /\ pc[p] = "idle" /\ txLeft[p] > 0
    /\ \E pkg \in LocalPackages, force \in BOOLEAN, skip_crypto_checks \in BOOLEAN, damage \in LocalDamage :
          /\ Planned(p, install_local_preflight(pkg, force, skip_crypto_checks, damage, installed), "execute")
          /\ ioFaultsLeft' = IF damage = "none" THEN ioFaultsLeft ELSE ioFaultsLeft - 1
          /\ Fresh(p, "install_local", force, <<pkg.name>>, skip_crypto_checks)
    /\ UNCHANGED <<fs, installed, available, backup, scriptFailsLeft, downloader, dirs>>

\* PackageManager::remove (lines 752-767), up to execute_transaction.
Remove(p) ==
    /\ pc[p] = "idle" /\ txLeft[p] > 0
    /\ \E package_names \in RemoveRequests, force \in BOOLEAN :
          /\ Planned(p, plan_remove_transaction(package_names, force, installed), "execute")
          /\ Fresh(p, "remove", force, package_names, FALSE)
    /\ UNCHANGED <<fs, installed, available, backup, ioFaultsLeft, scriptFailsLeft, downloader, dirs>>

\* PackageManager::update_system (lines 846-868) with the repository sync
\* that opens plan_update_transaction (lines 772-775).
UpdateSystem(p) ==
    /\ pc[p] = "idle" /\ txLeft[p] > 0
    /\ \E outcomes \in (IF ioFaultsLeft > 0 THEN SyncOutcomes ELSE {AllFine}), skip_crypto_checks \in BOOLEAN :
          /\ LET r == plan_update_sync(skip_crypto_checks, outcomes, available)
             IN IF ~r.ok
                THEN /\ Planned(p, [err |-> "ResolutionFailed", plan |-> EmptyPlan], "prepare")
                     /\ ioFaultsLeft' = ioFaultsLeft - 1
                     /\ available' = r.repo
                ELSE /\ available' = r.repo
                     /\ Planned(p, plan_update_transaction(installed, r.repo), "prepare")
                     /\ ioFaultsLeft' = ioFaultsLeft
          /\ Fresh(p, "update", FALSE, <<>>, skip_crypto_checks)
    /\ UNCHANGED <<fs, installed, backup, scriptFailsLeft, downloader, dirs>>

\* What may go wrong between planning and execution: the disk space
\* check of install (lines 603-637) and the downloads of
\* prepare_transaction_assets (lines 136-185).
PrepareErrors(op) ==
    IF op = "install" THEN {"NotEnoughSpace", "DownloadFailed"} ELSE {"DownloadFailed"}

\* The integrity check of prepare_transaction_assets (lines 188-209): the
\* downloaded archive of every package to install against the checksum of
\* its plan entry.
verify_checksums(to_install) ==
    \A k \in 1..Len(to_install) :
        verify_file_checksum(ArchiveDigest(to_install[k]), to_install[k].checksum)

\* prepare_transaction_assets (lines 136-216) after the space check of
\* install: nothing under the root is touched.
prepare_transaction_assets(transaction, skip_crypto_checks, failed, how) ==
    IF \E k \in 1..Len(transaction.to_install) :
           mirror_urls(transaction.to_install[k].repo_name) = <<>>
    THEN "ResolutionFailed"
    ELSE IF failed THEN how
    ELSE IF ~skip_crypto_checks /\ ~verify_checksums(transaction.to_install)
         THEN "ChecksumMismatch"
    ELSE ""

Prepare(p) ==
    /\ pc[p] = "prepare"
    /\ \E failed \in Faults, how \in PrepareErrors(pre[p].op) :
          LET err == prepare_transaction_assets(plan[p], pre[p].skip_crypto_checks, failed, how)
          IN /\ pc' = [pc EXCEPT ![p] = IF err # "" THEN "done" ELSE "execute"]
             /\ result' = [result EXCEPT ![p] = IF err # "" THEN err ELSE "none"]
             /\ ioFaultsLeft' = IF failed THEN ioFaultsLeft - 1 ELSE ioFaultsLeft
    /\ UNCHANGED <<fs, installed, available, plan, cur, backup, journal,
                   completed_installs, log, pre, thrown, txLeft, scriptFailsLeft, downloader, dirs>>

(***************************************************************************)
(* Vocabulary of the properties.                                           *)
(***************************************************************************)
FailureEvents == {"fault", "pre_remove_failed", "extract_failed",
                  "pre_install_failed", "conflict", "commit_failed",
                  "rollback_remove_failed", "post_install_failed",
                  "post_remove_failed"}

\* The events of process p's current transaction that are named in `evs`.
Occurrences(p, evs) == {k \in 1..Len(log[p]) : log[p][k].ev \in evs}

Failures(p) == Cardinality(Occurrences(p, FailureEvents))

Happened(p, ev) == Occurrences(p, {ev}) # {}

(***************************************************************************)
(* PackageManager::execute_transaction (package_manager.cpp, 404-587).     *)
(***************************************************************************)
\* Mutation of Throw: the rollback begins with the restores and deletes no
\* new file.
Throw_RestoresFirst(p, error) ==
    /\ thrown' = [thrown EXCEPT ![p] = error]
    /\ pc' = [pc EXCEPT ![p] = "rollback_old"]
    /\ cur' = [cur EXCEPT ![p] = StartCursor]
    /\ result' = result

\* throw TransactionException(error): control passes to the catch block
\* of lines 564-576, whose first statement is rollback_transaction.
Throw(p, error) ==
    /\ thrown' = [thrown EXCEPT ![p] = error]
    /\ pc' = [pc EXCEPT ![p] = "rollback_new"]
    /\ cur' = [cur EXCEPT ![p] = [i |-> Len(journal[p].new_files_committed), j |-> 1]]
    /\ result' = result

\* A std::filesystem::filesystem_error leaves execute_transaction: the
\* only handler (line 564) catches TransactionException.
Escape(p) ==
    /\ pc' = [pc EXCEPT ![p] = "done"]
    /\ result' = [result EXCEPT ![p] = "filesystem_error"]
    /\ cur' = cur
    /\ thrown' = thrown

Logged(p, e) == log' = [log EXCEPT ![p] = Append(@, e)]

\* Mutation of NextPhase: the database commit comes before the installs.
NextPhase_CommitFirst(phase) ==
    CASE phase = "backup" -> "pre_remove"
      [] phase = "pre_remove" -> "commit"
      [] phase = "commit" -> "install"
      [] phase = "install" -> "post_install"
      [] phase = "post_install" -> "post_remove"
      [] phase = "post_remove" -> "cleanup"

\* The order of the phases inside the try block (lines 429-561), and the
\* cleanup that follows it (line 578).
NextPhase(phase) ==
    CASE phase = "backup" -> "pre_remove"
      [] phase = "pre_remove" -> "install"
      [] phase = "install" -> "commit"
      [] phase = "commit" -> "post_install"
      [] phase = "post_install" -> "post_remove"
      [] phase = "post_remove" -> "cleanup"

\* Phase 0 (lines 405-427): the empty plan, the workspace, the journal.
Execute(p) ==
    /\ pc[p] = "execute"
    /\ pc' = [pc EXCEPT ![p] = "backup"]
    /\ cur' = [cur EXCEPT ![p] = StartCursor]
    /\ backup' = [backup EXCEPT ![p] = EmptyDir]
    /\ journal' = [journal EXCEPT ![p] = EmptyJournal]
    /\ completed_installs' = [completed_installs EXCEPT ![p] = <<>>]
    /\ UNCHANGED <<fs, installed, available, plan, result, log, pre, thrown,
                   txLeft, ioFaultsLeft, scriptFailsLeft, downloader, dirs>>

\* Mutation of backed_up: the backup is not entered in the journal.
backed_up_Forgets(tx_journal, file) == tx_journal

\* Line 438: journal.old_files_backed_up[source_path] = backup_path.
backed_up(tx_journal, file) == [tx_journal EXCEPT !.old_files_backed_up = @ \cup {file}]

\* Phase 1 (lines 429-442): one turn of the loops over to_remove and the
\* owned_files of each; a file that exists is renamed into the backup dir.
BackupFile(p) ==
    LET i == cur[p].i
        j == cur[p].j
        to_remove == plan[p].to_remove
    IN
    /\ pc[p] = "backup"
    /\ IF i > Len(to_remove)
       THEN /\ pc' = [pc EXCEPT ![p] = NextPhase("backup")]
            /\ cur' = [cur EXCEPT ![p] = StartCursor]
            /\ UNCHANGED <<fs, backup, journal, result, log, thrown, ioFaultsLeft>>
       ELSE IF j > Len(to_remove[i].owned_files)
       THEN /\ cur' = [cur EXCEPT ![p] = [i |-> i + 1, j |-> 1]]
            /\ UNCHANGED <<fs, backup, journal, pc, result, log, thrown, ioFaultsLeft>>
       ELSE LET file == to_remove[i].owned_files[j]
            IN IF ~exists(fs, file)
               THEN /\ cur' = [cur EXCEPT ![p] = [i |-> i, j |-> j + 1]]
                    /\ UNCHANGED <<fs, backup, journal, pc, result, log, thrown, ioFaultsLeft>>
               ELSE \E rename_fails \in Faults :
                      IF rename_fails
                      THEN /\ Escape(p)
                           /\ ioFaultsLeft' = ioFaultsLeft - 1
                           /\ Logged(p, Event("fault", to_remove[i].name, file))
                           /\ UNCHANGED <<fs, backup, journal>>
                      ELSE /\ fs' = [fs EXCEPT ![file] = Absent]
                           /\ backup' = [backup EXCEPT ![p][file] = fs[file]]
                           /\ journal' = [journal EXCEPT ![p] = backed_up(@, file)]
                           /\ cur' = [cur EXCEPT ![p] = [i |-> i, j |-> j + 1]]
                           /\ Logged(p, Event("backup", to_remove[i].name, file))
                           /\ UNCHANGED <<pc, result, thrown, ioFaultsLeft>>
    /\ UNCHANGED <<installed, available, plan, completed_installs, pre, txLeft,
                   scriptFailsLeft, downloader, dirs>>

\* Lines 444-457: the pre-remove hook of one package of to_remove.  The
\* script path is m_root_path / pre_remove_script, and it runs only if a
\* file exists there.
PreRemove(p) ==
    LET i == cur[p].i
        to_remove == plan[p].to_remove
    IN
    /\ pc[p] = "pre_remove"
    /\ IF i > Len(to_remove)
       THEN /\ pc' = [pc EXCEPT ![p] = NextPhase("pre_remove")]
            /\ cur' = [cur EXCEPT ![p] = StartCursor]
            /\ UNCHANGED <<result, log, thrown, scriptFailsLeft>>
       ELSE IF /\ to_remove[i].pre_remove_script # NoScript
               /\ exists(fs, to_remove[i].pre_remove_script)
       THEN \E ran \in ScriptOutcomes :
              IF ran
              THEN /\ cur' = [cur EXCEPT ![p] = [i |-> i + 1, j |-> 1]]
                   /\ Logged(p, Event("pre_remove", to_remove[i].name, to_remove[i].pre_remove_script))
                   /\ UNCHANGED <<pc, result, thrown, scriptFailsLeft>>
              ELSE /\ Throw(p, "ScriptletFailed")
                   /\ scriptFailsLeft' = scriptFailsLeft - 1
                   /\ Logged(p, Event("pre_remove_failed", to_remove[i].name, to_remove[i].pre_remove_script))
       ELSE /\ cur' = [cur EXCEPT ![p] = [i |-> i + 1, j |-> 1]]
            /\ UNCHANGED <<pc, result, log, thrown, scriptFailsLeft>>
    /\ UNCHANGED <<fs, installed, available, plan, backup, journal,
                   completed_installs, pre, txLeft, ioFaultsLeft, downloader, dirs>>

\* au::extract (archive.cpp): the regular files of the package's archive,
\* now lying in the staging directory.
extract(pkg) == pkg.files

\* Phase 2, steps 1 and 2 (lines 464-485) for the package at the cursor:
\* extraction into staging, then the pre-install script from staging.
StagePackage(p) ==
    LET i == cur[p].i
        to_install == plan[p].to_install
    IN
    /\ pc[p] = "install"
    /\ IF i > Len(to_install)
       THEN /\ pc' = [pc EXCEPT ![p] = NextPhase("install")]
            /\ cur' = [cur EXCEPT ![p] = StartCursor]
            /\ UNCHANGED <<result, log, thrown, ioFaultsLeft, scriptFailsLeft>>
       ELSE \E extract_fails \in Faults, ran \in ScriptOutcomes :
              LET pkg == to_install[i]
                  has_script == pkg.pre_install_script # NoScript
                  script_ok == pkg.pre_install_script \in Range(extract(pkg)) /\ ran
              IN IF extract_fails
                 THEN /\ ran
                      /\ Throw(p, "ExtractionFailed")
                      /\ ioFaultsLeft' = ioFaultsLeft - 1
                      /\ Logged(p, Event("extract_failed", pkg.name, ""))
                      /\ UNCHANGED scriptFailsLeft
                 ELSE IF has_script /\ ~script_ok
                 THEN /\ Throw(p, "ScriptletFailed")
                      /\ scriptFailsLeft' = IF ran THEN scriptFailsLeft ELSE scriptFailsLeft - 1
                      /\ Logged(p, Event("pre_install_failed", pkg.name, pkg.pre_install_script))
                      /\ UNCHANGED ioFaultsLeft
                 ELSE /\ has_script \/ ran
                      /\ pc' = [pc EXCEPT ![p] = "move"]
                      /\ cur' = [cur EXCEPT ![p] = [i |-> i, j |-> 1]]
                      /\ Logged(p, Event(IF has_script THEN "pre_install" ELSE "extract", pkg.name, pkg.pre_install_script))
                      /\ UNCHANGED <<result, thrown, ioFaultsLeft, scriptFailsLeft>>
    /\ UNCHANGED <<fs, installed, available, plan, backup, journal,
                   completed_installs, pre, txLeft, downloader, dirs>>

\* Phase 2, steps 3 and 4 (lines 487-509): one extracted file is moved to
\* the root, or, after the last one, the package's record is prepared.
MoveFile(p) ==
    LET i == cur[p].i
        j == cur[p].j
        pkg == plan[p].to_install[i]
        extract_result == extract(pkg)
    IN
    /\ pc[p] = "move"
    /\ IF j > Len(extract_result)
       THEN /\ completed_installs' = [completed_installs EXCEPT ![p] = Append(@, Installed(pkg, extract_result))]
            /\ pc' = [pc EXCEPT ![p] = "install"]
            /\ cur' = [cur EXCEPT ![p] = [i |-> i + 1, j |-> 1]]
            /\ UNCHANGED <<fs, journal, result, log, thrown, ioFaultsLeft>>
       ELSE LET file == extract_result[j]
            IN IF exists(fs, file)
               THEN /\ Throw(p, "FileConflict")
                    /\ Logged(p, Event("conflict", pkg.name, file))
                    /\ UNCHANGED <<fs, journal, completed_installs, ioFaultsLeft>>
               ELSE \E rename_fails \in Faults :
                      IF rename_fails
                      THEN /\ Escape(p)
                           /\ ioFaultsLeft' = ioFaultsLeft - 1
                           /\ Logged(p, Event("fault", pkg.name, file))
                           /\ UNCHANGED <<fs, journal, completed_installs>>
                      ELSE /\ fs' = [fs EXCEPT ![file] = ArchiveDigest(pkg)]
                           /\ journal' = [journal EXCEPT ![p].new_files_committed = Append(@, file)]
                           /\ cur' = [cur EXCEPT ![p] = [i |-> i, j |-> j + 1]]
                           /\ Logged(p, Event("move", pkg.name, file))
                           /\ UNCHANGED <<pc, result, thrown, completed_installs, ioFaultsLeft>>
    /\ dirs' = IF j <= Len(extract_result) /\ ~exists(fs, extract_result[j])
               THEN dirs \cup {parent_path(extract_result[j])}
               ELSE dirs
    /\ UNCHANGED <<installed, available, plan, backup, pre, txLeft, scriptFailsLeft, downloader>>

\* Phase 3 (lines 512-529): the database commit.
Commit(p) ==
    LET names_to_remove == [k \in 1..Len(plan[p].to_remove) |-> plan[p].to_remove[k].name]
    IN
    /\ pc[p] = "commit"
    /\ \E commit_fails \in Faults :
          IF commit_fails
          THEN /\ Throw(p, "FileSystemError")
               /\ ioFaultsLeft' = ioFaultsLeft - 1
               /\ Logged(p, Event("commit_failed", "", ""))
               /\ UNCHANGED installed
          ELSE /\ installed' = perform_transactional_update(installed, completed_installs[p], names_to_remove)
               /\ pc' = [pc EXCEPT ![p] = NextPhase("commit")]
               /\ cur' = [cur EXCEPT ![p] = StartCursor]
               /\ Logged(p, Event("commit", "", ""))
               /\ UNCHANGED <<result, thrown, ioFaultsLeft>>
    /\ UNCHANGED <<fs, available, plan, backup, journal, completed_installs,
                   pre, txLeft, scriptFailsLeft, downloader, dirs>>

\* Mutation of PostHook: a failing hook raises ScriptletFailed.
PostHook_Throws(p, names, scripts, dir, what, next) ==
    LET i == cur[p].i
    IN
    /\ IF i > Len(names)
       THEN /\ pc' = [pc EXCEPT ![p] = next]
            /\ cur' = [cur EXCEPT ![p] = StartCursor]
            /\ UNCHANGED <<log, scriptFailsLeft, thrown, result>>
       ELSE IF scripts[i] # NoScript /\ exists(dir, scripts[i])
       THEN \E ran \in ScriptOutcomes :
              IF ran
              THEN /\ cur' = [cur EXCEPT ![p] = [i |-> i + 1, j |-> 1]]
                   /\ Logged(p, Event(what, names[i], scripts[i]))
                   /\ UNCHANGED <<pc, scriptFailsLeft, thrown, result>>
              ELSE /\ Throw(p, "ScriptletFailed")
                   /\ Logged(p, Event(what \o "_failed", names[i], scripts[i]))
                   /\ scriptFailsLeft' = scriptFailsLeft - 1
       ELSE /\ cur' = [cur EXCEPT ![p] = [i |-> i + 1, j |-> 1]]
            /\ UNCHANGED <<pc, log, scriptFailsLeft, thrown, result>>
    /\ UNCHANGED <<fs, installed, available, plan, backup, journal,
                   completed_installs, pre, txLeft, ioFaultsLeft, downloader, dirs>>

\* One turn of a post-transaction hook loop (lines 531-561): the script of
\* the package at the cursor, looked for in `dir`; a failing script is a
\* warning.
PostHook(p, names, scripts, dir, what, next) ==
    LET i == cur[p].i
    IN
    /\ IF i > Len(names)
       THEN /\ pc' = [pc EXCEPT ![p] = next]
            /\ cur' = [cur EXCEPT ![p] = StartCursor]
            /\ UNCHANGED <<log, scriptFailsLeft>>
       ELSE /\ cur' = [cur EXCEPT ![p] = [i |-> i + 1, j |-> 1]]
            /\ pc' = pc
            /\ IF scripts[i] # NoScript /\ exists(dir, scripts[i])
               THEN \E ran \in ScriptOutcomes :
                      /\ Logged(p, Event(IF ran THEN what ELSE what \o "_failed", names[i], scripts[i]))
                      /\ scriptFailsLeft' = IF ran THEN scriptFailsLeft ELSE scriptFailsLeft - 1
               ELSE UNCHANGED <<log, scriptFailsLeft>>
    /\ UNCHANGED <<fs, installed, available, plan, backup, journal,
                   completed_installs, result, pre, thrown, txLeft, ioFaultsLeft, downloader, dirs>>

\* Lines 537-547: post-install scripts, from the root.
PostInstall(p) ==
    LET done == completed_installs[p]
    IN
    /\ pc[p] = "post_install"
    /\ PostHook(p, [k \in 1..Len(done) |-> done[k].name],
                [k \in 1..Len(done) |-> done[k].post_install_script],
                fs, "post_install", NextPhase("post_install"))

\* Lines 549-560: post-remove scripts, from the backup directory.
PostRemove(p) ==
    LET gone == plan[p].to_remove
    IN
    /\ pc[p] = "post_remove"
    /\ PostHook(p, [k \in 1..Len(gone) |-> gone[k].name],
                [k \in 1..Len(gone) |-> gone[k].post_remove_script],
                backup[p], "post_remove", NextPhase("post_remove"))

\* Phase 4 (lines 578-587): the workspace is deleted; success is returned.
Cleanup(p) ==
    /\ pc[p] = "cleanup"
    /\ backup' = [backup EXCEPT ![p] = EmptyDir]
    /\ result' = [result EXCEPT ![p] = "ok"]
    /\ pc' = [pc EXCEPT ![p] = "done"]
    /\ UNCHANGED <<fs, installed, available, plan, cur, journal,
                   completed_installs, log, pre, thrown, txLeft, ioFaultsLeft,
                   scriptFailsLeft, downloader, dirs>>

(***************************************************************************)
(* PackageManager::rollback_transaction (lines 875-893), inside the catch  *)
(* block of execute_transaction (lines 564-576).                           *)
(***************************************************************************)
\* The keys of journal.old_files_backed_up in the map's iteration order.
backed_up_in_order(j) == InOrder(SortedPaths, j.old_files_backed_up)

\* Mutation of rollback_remove: the file is left on the root.
rollback_remove_Keeps(root, path) == root

\* std::filesystem::remove(it, ec) that succeeds (line 880).
rollback_remove(root, path) == [root EXCEPT ![path] = Absent]

\* std::filesystem::rename(backup_path, original_path) that succeeds
\* (line 890): [root, dir] afterwards.
rollback_restore(root, dir, path) ==
    [root |-> [root EXCEPT ![path] = dir[path]], dir |-> [dir EXCEPT ![path] = Absent]]

\* Loop 1 (lines 878-881): std::filesystem::remove(it, ec) on the newest
\* file not yet handled; an error is left in ec and ignored.
RollbackNewFile(p) ==
    LET k == cur[p].i
    IN
    /\ pc[p] = "rollback_new"
    /\ IF k = 0
       THEN /\ pc' = [pc EXCEPT ![p] = "rollback_old"]
            /\ cur' = [cur EXCEPT ![p] = StartCursor]
            /\ UNCHANGED <<fs, log, ioFaultsLeft>>
       ELSE LET path == journal[p].new_files_committed[k]
            IN /\ cur' = [cur EXCEPT ![p] = [i |-> k - 1, j |-> 1]]
               /\ pc' = pc
               /\ \E remove_fails \in Faults :
                     IF remove_fails
                     THEN /\ ioFaultsLeft' = ioFaultsLeft - 1
                          /\ Logged(p, Event("rollback_remove_failed", "", path))
                          /\ fs' = fs
                     ELSE /\ fs' = rollback_remove(fs, path)
                          /\ Logged(p, Event("rollback_remove", "", path))
                          /\ ioFaultsLeft' = ioFaultsLeft
    /\ UNCHANGED <<installed, available, plan, backup, journal,
                   completed_installs, result, pre, thrown, txLeft, scriptFailsLeft, downloader, dirs>>

\* Loop 2 (lines 884-892): the next backed-up file is renamed back, if its
\* backup exists; then (lines 571-575) the workspace is deleted and the
\* error of the exception is returned.  std::filesystem::rename throws.
RollbackOldFile(p) ==
    LET i == cur[p].i
        entries == backed_up_in_order(journal[p])
    IN
    /\ pc[p] = "rollback_old"
    /\ IF i > Len(entries)
       THEN /\ backup' = [backup EXCEPT ![p] = EmptyDir]
            /\ result' = [result EXCEPT ![p] = thrown[p]]
            /\ pc' = [pc EXCEPT ![p] = "done"]
            /\ UNCHANGED <<fs, cur, log, thrown, ioFaultsLeft>>
       ELSE LET original_path == entries[i]
            IN IF ~exists(backup[p], original_path)
               THEN /\ cur' = [cur EXCEPT ![p] = [i |-> i + 1, j |-> 1]]
                    /\ UNCHANGED <<fs, backup, pc, result, log, thrown, ioFaultsLeft>>
               ELSE \E rename_fails \in Faults :
                      IF rename_fails
                      THEN /\ Escape(p)
                           /\ ioFaultsLeft' = ioFaultsLeft - 1
                           /\ Logged(p, Event("fault", "", original_path))
                           /\ UNCHANGED <<fs, backup>>
                      ELSE /\ fs' = rollback_restore(fs, backup[p], original_path).root
                           /\ backup' = [backup EXCEPT ![p] = rollback_restore(fs, backup[p], original_path).dir]
                           /\ cur' = [cur EXCEPT ![p] = [i |-> i + 1, j |-> 1]]
                           /\ Logged(p, Event("rollback_restore", "", original_path))
                           /\ UNCHANGED <<pc, result, thrown, ioFaultsLeft>>
    /\ dirs' = IF i <= Len(entries) /\ exists(backup[p], entries[i])
               THEN dirs \cup {parent_path(entries[i])}
               ELSE dirs
    /\ UNCHANGED <<installed, available, plan, journal, completed_installs,
                   pre, txLeft, scriptFailsLeft, downloader>>

RECURSIVE remove_new_files(_, _, _)
\* Loop 1 of rollback_transaction without failures, from index k down.
remove_new_files(new_files, k, root) ==
    IF k = 0 THEN root
    ELSE remove_new_files(new_files, k - 1, rollback_remove(root, new_files[k]))

RECURSIVE restore_backups(_, _, _)
\* Loop 2 of rollback_transaction without failures, from index i up; st is
\* [root, dir].
restore_backups(entries, i, st) ==
    IF i > Len(entries) THEN st
    ELSE restore_backups(entries, i + 1,
            IF exists(st.dir, entries[i])
            THEN rollback_restore(st.root, st.dir, entries[i]) ELSE st)

\* rollback_transaction (lines 875-893) as one call in which no
\* filesystem operation fails: [root, dir] afterwards.
rollback_transaction(j, root, dir) ==
    restore_backups(backed_up_in_order(j), 1,
        [root |-> remove_new_files(j.new_files_committed, Len(j.new_files_committed), root),
         dir |-> dir])

\* rollback_transaction called once more on the journal of a transaction
\* whose rollback has returned.
RollbackAgain(p) ==
    /\ pc[p] = "done"
    /\ thrown[p] # "" /\ result[p] = thrown[p]
    /\ ~Happened(p, "rollback_again")
    /\ fs' = rollback_transaction(journal[p], fs, backup[p]).root
    /\ backup' = [backup EXCEPT ![p] = rollback_transaction(journal[p], fs, backup[p]).dir]
    /\ Logged(p, Event("rollback_again", "", ""))
    /\ UNCHANGED <<installed, available, pc, plan, cur, journal,
                   completed_installs, result, pre, thrown, txLeft,
                   ioFaultsLeft, scriptFailsLeft, downloader, dirs>>

\* The operation has returned to its caller; the process is idle again.
Return(p) ==
    /\ pc[p] = "done"
    /\ pc' = [pc EXCEPT ![p] = "idle"]
    /\ plan' = [plan EXCEPT ![p] = EmptyPlan]
    /\ UNCHANGED <<fs, installed, available, cur, backup, journal,
                   completed_installs, result, log, pre, thrown, txLeft,
                   ioFaultsLeft, scriptFailsLeft, downloader, dirs>>

Step(p) ==
    \/ Install(p) \/ InstallLocal(p) \/ Remove(p) \/ UpdateSystem(p) \/ Prepare(p)
    \/ Execute(p) \/ BackupFile(p) \/ PreRemove(p) \/ StagePackage(p)
    \/ MoveFile(p) \/ Commit(p) \/ PostInstall(p) \/ PostRemove(p)
    \/ Cleanup(p) \/ RollbackNewFile(p) \/ RollbackOldFile(p) \/ Return(p)

Next == \E p \in Procs : Step(p)

Spec == Init /\ [][Next]_vars

\* The manager on a root where tool is installed and its dependency lib is
\* satisfied only through the provides of the installed old.
InitProvided ==
    \E strays \in InitialStrays :
        InitWith({"pm1"}, <<Installed(old_lib, old_lib.files), Installed(tool, tool.files)>>,
                 RepoIndex, strays, MaxTx, MaxIoFaults, MaxScriptFails)

SpecProvided == InitProvided /\ [][Next]_vars

(***************************************************************************)
(* Vocabulary of the properties, continued.                                *)
(***************************************************************************)
\* execute_transaction has ended for p other than by returning success.
EndedInFailure(p) == pc[p] = "done" /\ log[p] # <<>> /\ result[p] # "ok"

Unchanged(p) == fs = pre[p].fs /\ installed = pre[p].installed

(***************************************************************************)
(* C1: if exactly one step of a transaction fails before the database      *)
(* commit has completed, then once execute_transaction has ended the root  *)
(* and the installed-package catalog are what they were when it began.     *)
(***************************************************************************)
C1_Atomicity ==
    \A p \in Procs :
        (EndedInFailure(p) /\ Failures(p) = 1 /\ ~Happened(p, "commit")) => Unchanged(p)

(***************************************************************************)
(* C2: when the pre-install script of one package of a multi-package       *)
(* install fails and nothing else does, the operation returns              *)
(* ScriptletFailed, no package of the transaction is in the catalog or has *)
(* a file on the root that was not there before the transaction, and what  *)
(* was installed before is untouched.                                      *)
(***************************************************************************)
PreInstallFailedAlone(p) ==
    /\ pc[p] = "done"
    /\ Len(plan[p].to_install) >= 2
    /\ Happened(p, "pre_install_failed")
    /\ Failures(p) = 1

C2_PreInstallFailure ==
    \A p \in Procs :
        PreInstallFailedAlone(p) =>
            /\ result[p] = "ScriptletFailed"
            /\ \A k \in 1..Len(plan[p].to_install) :
                  LET pkg == plan[p].to_install[k]
                  IN /\ Installed(pkg, extract(pkg)) \notin Range(installed)
                     /\ \A f \in Range(extract(pkg)) :
                           exists(fs, f) => exists(pre[p].fs, f) /\ fs[f] = pre[p].fs[f]
            /\ Unchanged(p)

\* A later package's script failed after files of earlier packages had
\* been moved to the root.
C2_Witness ==
    \E p \in Procs :
        /\ PreInstallFailedAlone(p)
        /\ journal[p].new_files_committed # <<>>

(***************************************************************************)
(* Two manager processes on the same root and database, no failures        *)
(* injected.                                                               *)
(***************************************************************************)
InitTwo ==
    InitWith(Procs, <<Installed(app1, app1.files), Installed(old, old.files)>>,
             RepoIndex, {}, MaxTxEach, 0, 0)

SpecTwo == InitTwo /\ [][Next]_vars

\* Process p is between phase 0 and the end of execute_transaction.
InTransaction(p) ==
    pc[p] \in {"backup", "pre_remove", "install", "move", "commit",
               "post_install", "post_remove", "cleanup", "rollback_new",
               "rollback_old"}

(***************************************************************************)
(* C3: transactions are mutually exclusive: at no time are two manager     *)
(* processes both inside execute_transaction on the same root.             *)
(***************************************************************************)
C3_MutualExclusion ==
    \A p, q \in Procs : (p # q /\ InTransaction(p)) => ~InTransaction(q)

(***************************************************************************)
(* C4: the database commit is a single event.  The catalog changes only in *)
(* the commit step of a transaction, by one perform_transactional_update   *)
(* carrying every removal and every addition of the plan; a transaction    *)
(* commits at most once, after all its backup and install moves, and no    *)
(* rollback step follows a commit.                                         *)
(***************************************************************************)
FileSystemEvents == {"backup", "move", "rollback_remove", "rollback_restore",
                     "rollback_remove_failed"}

CatalogChangeIsTheCommit ==
    installed' # installed =>
        \E p \in Procs :
            /\ pc[p] = "commit"
            /\ ~Happened(p, "commit")
            /\ Len(completed_installs[p]) = Len(plan[p].to_install)
            /\ \A k \in 1..Len(plan[p].to_install) :
                  completed_installs[p][k].name = plan[p].to_install[k].name
            /\ installed' = perform_transactional_update(installed, completed_installs[p],
                               [k \in 1..Len(plan[p].to_remove) |-> plan[p].to_remove[k].name])

NothingAfterCommit ==
    \A p \in Procs :
        /\ Cardinality(Occurrences(p, {"commit"})) <= 1
        /\ \A c \in Occurrences(p, {"commit"}) :
              \A k \in Occurrences(p, FileSystemEvents) : k < c
        /\ Happened(p, "commit") => pc[p] \notin {"rollback_new", "rollback_old"} /\ thrown[p] = ""

C4_CommitOnce == [][CatalogChangeIsTheCommit]_vars /\ []NothingAfterCommit

\* A transaction that removed and installed files has committed.
C4_Witness ==
    \E p \in Procs :
        /\ Happened(p, "commit")
        /\ Happened(p, "backup")
        /\ Happened(p, "move")
        /\ installed # pre[p].installed

(***************************************************************************)
(* C5: a failing post-install or post-remove script never rolls the        *)
(* transaction back: from the failure on neither the root nor the catalog  *)
(* changes, the installed files are on the root and the removed ones are   *)
(* not, no error is being handled, and execute_transaction returns         *)
(* success.                                                                *)
(***************************************************************************)
PostHookFailed(p) == Happened(p, "post_install_failed") \/ Happened(p, "post_remove_failed")

C5_StaysCommitted ==
    (\E p \in Procs : PostHookFailed(p)) => UNCHANGED <<fs, installed>>

C5_NoRollback ==
    \A p \in Procs :
        PostHookFailed(p) =>
            /\ Happened(p, "commit")
            /\ thrown[p] = ""
            /\ pc[p] \notin {"rollback_new", "rollback_old"}
            /\ pc[p] \in {"done", "idle"} => result[p] = "ok"
            /\ \A f \in Range(journal[p].new_files_committed) : exists(fs, f)
            /\ \A f \in journal[p].old_files_backed_up \ Range(journal[p].new_files_committed) :
                  ~exists(fs, f)

C5_PostHookFailure == [][C5_StaysCommitted]_vars /\ []C5_NoRollback

\* A transaction whose post hook failed has returned.
C5_Witness ==
    \E p \in Procs :
        /\ PostHookFailed(p)
        /\ pc[p] = "done"
        /\ installed # pre[p].installed

(***************************************************************************)
(* C6: for every package of to_remove whose pre_remove script is one of    *)
(* its owned files (and was on the root), the script has been run once the *)
(* transaction is past its pre-remove phase.                               *)
(***************************************************************************)
PastPreRemove(p) ==
    pc[p] \in {"install", "move", "commit", "post_install", "post_remove", "cleanup"}

C6_PreRemoveRuns ==
    \A p \in Procs :
        PastPreRemove(p) =>
            \A k \in 1..Len(plan[p].to_remove) :
                LET pkg == plan[p].to_remove[k]
                IN (/\ pkg.pre_remove_script # NoScript
                    /\ pkg.pre_remove_script \in Range(pkg.owned_files)
                    /\ exists(pre[p].fs, pkg.pre_remove_script))
                   => \E e \in Occurrences(p, {"pre_remove"}) : log[p][e].pkg = pkg.name

(***************************************************************************)
(* C7: installs are applied in dependency order: in an install or update   *)
(* transaction, when a package of to_install is staged (its pre_install    *)
(* hook run) or has a file moved into the root, every package of the same  *)
(* list that it depends on, by name or through `provides`, has been staged *)
(* before it.                                                              *)
(***************************************************************************)
StagingEvents == {"extract", "pre_install"}

DependsOn(pkg, dep) ==
    \E d \in Range(pkg.deps) : d = dep.name \/ d \in Range(dep.provides)

C7_TopologicalOrder ==
    \A p \in Procs :
        pre[p].op \in {"install", "update"} =>
            \A e \in Occurrences(p, StagingEvents \cup {"pre_install_failed", "move"}) :
                \A k, m \in 1..Len(plan[p].to_install) :
                    (/\ k # m
                     /\ plan[p].to_install[k].name = log[p][e].pkg
                     /\ DependsOn(plan[p].to_install[k], plan[p].to_install[m]))
                    => \E d \in Occurrences(p, StagingEvents) :
                          d < e /\ log[p][d].pkg = plan[p].to_install[m].name

(***************************************************************************)
(* The single-process model with a caller that invokes                     *)
(* rollback_transaction a second time.                                     *)
(***************************************************************************)
NextRollbackTwice == Next \/ \E p \in Procs : RollbackAgain(p)

SpecRollbackTwice == Init /\ [][NextRollbackTwice]_vars

(***************************************************************************)
(* C8: rollback idempotence: a second rollback_transaction on a journal    *)
(* whose first rollback removed every new file and moved every backup back *)
(* changes nothing on the filesystem.                                      *)
(***************************************************************************)
C8_SecondRollback ==
    \A p \in Procs :
        (RollbackAgain(p) /\ Failures(p) = 1) => (fs' = fs /\ backup' = backup)

C8_RollbackIdempotent == [][C8_SecondRollback]_vars

(***************************************************************************)
(* C9: rollback_transaction never raises: once a TransactionException has  *)
(* been caught, execute_transaction returns its error, and every file the  *)
(* journal names has been handled by the rollback.                         *)
(***************************************************************************)
C9_OriginalErrorReturned ==
    \A p \in Procs :
        (pc[p] = "done" /\ thrown[p] # "") =>
            /\ result[p] = thrown[p]
            /\ \A f \in journal[p].old_files_backed_up :
                  \E e \in Occurrences(p, {"rollback_restore", "fault"}) : log[p][e].path = f

(***************************************************************************)
(* C10: install with replace: when a transaction that installs N, with O   *)
(* in N.replaces and O installed, has returned success, O is not in the    *)
(* catalog and N is, every file O owned that N does not ship is absent     *)
(* from the root, and every file of N is on the root.                      *)
(***************************************************************************)
C10_Replaces ==
    \A p \in Procs :
        (pc[p] = "done" /\ result[p] = "ok") =>
            \A k \in 1..Len(plan[p].to_install), o \in 1..Len(pre[p].installed) :
                LET N == plan[p].to_install[k]
                    O == pre[p].installed[o]
                IN O.name \in Range(N.replaces) =>
                     /\ ~is_package_installed(installed, O.name)
                     /\ Installed(N, extract(N)) \in Range(installed)
                     /\ \A f \in Range(O.owned_files) \ Range(N.files) : ~exists(fs, f)
                     /\ \A f \in Range(N.files) : fs[f] = ArchiveDigest(N)

\* `new` has replaced an installed `old` whose files were on the root.
C10_Witness ==
    \E p \in Procs :
        /\ pc[p] = "done" /\ result[p] = "ok"
        /\ \E k \in 1..Len(plan[p].to_install), o \in 1..Len(pre[p].installed) :
              /\ pre[p].installed[o].name \in Range(plan[p].to_install[k].replaces)
              /\ \A f \in Range(pre[p].installed[o].owned_files) : exists(pre[p].fs, f)

(***************************************************************************)
(* C11: upgrade in one transaction: when update_system has returned        *)
(* success, every package that was installed and had a newer version in    *)
(* the repository is in the catalog exactly once, at the new version; the  *)
(* files only its old version owned are absent from the root and every     *)
(* file of the new version is on the root.                                 *)
(***************************************************************************)
\* Segment k of a version, missing segments counting as 0.
Segment(v, k) == IF k <= Len(v) THEN v[k] ELSE 0

\* Version v is newer than w: greater at the first segment that differs.
Newer(v, w) ==
    \E k \in 1..(Len(v) + Len(w)) :
        /\ Segment(v, k) > Segment(w, k)
        /\ \A j \in 1..(k - 1) : Segment(v, j) = Segment(w, j)

\* The repository versions newer than the installed record r.
NewerAvailable(r) == {u \in Range(RepoIndex) : u.name = r.name /\ Newer(u.version, r.version)}

Upgraded(p, O, U) ==
    /\ Cardinality({k \in 1..Len(installed) : installed[k].name = O.name}) = 1
    /\ \A k \in 1..Len(installed) : installed[k].name = O.name => installed[k].version = U.version
    /\ \A f \in Range(O.owned_files) \ Range(U.files) : ~exists(fs, f)
    /\ \A f \in Range(U.files) : fs[f] = ArchiveDigest(U)

C11_Upgrade ==
    \A p \in Procs :
        (pc[p] = "done" /\ result[p] = "ok" /\ pre[p].op = "update") =>
            \A o \in 1..Len(pre[p].installed) :
                \A U \in NewerAvailable(pre[p].installed[o]) :
                    Upgraded(p, pre[p].installed[o], U)

\* app 1, with its files on the root, has been upgraded.
C11_Witness ==
    \E p \in Procs :
        /\ pc[p] = "done" /\ result[p] = "ok" /\ pre[p].op = "update"
        /\ \E o \in 1..Len(pre[p].installed) :
              /\ NewerAvailable(pre[p].installed[o]) # {}
              /\ \A f \in Range(pre[p].installed[o].owned_files) : exists(pre[p].fs, f)
        /\ Happened(p, "commit")

(***************************************************************************)
(* C12: exclusive file ownership: whenever no transaction is running, no   *)
(* path is in the owned_files of two different installed packages.         *)
(***************************************************************************)
Quiescent == \A p \in Procs : pc[p] \in {"idle", "done"}

C12_ExclusiveOwnership ==
    Quiescent =>
        \A i, j \in 1..Len(installed) :
            i # j => Range(installed[i].owned_files) \cap Range(installed[j].owned_files) = {}

(***************************************************************************)
(* C13: catalog/filesystem agreement: whenever no transaction is running,  *)
(* every path in the owned_files of an installed package exists on the     *)
(* root.                                                                   *)
(***************************************************************************)
C13_OwnedFilesExist ==
    Quiescent =>
        \A k \in 1..Len(installed) :
            \A f \in Range(installed[k].owned_files) : exists(fs, f)

(***************************************************************************)
(* C14: planner conflict-freeness: a plan that plan_install_transaction    *)
(* returns without force has no to_install package shipping a path owned   *)
(* by an installed package that is not in the plan's to_remove.  Stated    *)
(* for every plan being executed and for every request in every state.     *)
(***************************************************************************)
ConflictFree(t, db) ==
    \A k \in 1..Len(t.to_install), o \in 1..Len(db) :
        Range(t.to_install[k].files) \cap Range(db[o].owned_files) # {}
            => \E m \in 1..Len(t.to_remove) : t.to_remove[m].name = db[o].name

UnforcedInstall(p) == pre[p].op = "install" /\ ~pre[p].force /\ pc[p] # "idle"

C14_PlannerConflictFree ==
    /\ \A p \in Procs : UnforcedInstall(p) => ConflictFree(plan[p], pre[p].installed)
    /\ \A package_names \in InstallRequests :
          LET r == plan_install_transaction(package_names, FALSE, installed, available, fs)
          IN r.err = "" => ConflictFree(r.plan, installed)

\* An unforced install that replaces one installed package and leaves
\* another in place is being executed.
C14_Witness ==
    \E p \in Procs :
        /\ UnforcedInstall(p)
        /\ plan[p].to_install # <<>>
        /\ plan[p].to_remove # <<>>
        /\ Len(pre[p].installed) > Len(plan[p].to_remove)
        /\ pc[p] = "commit"

(***************************************************************************)
(* The resolver on its own: DependencyResolver::resolve called with a list *)
(* of names over catalogs with chains, a diamond, a cycle and virtual      *)
(* providers.                                                              *)
(***************************************************************************)
Node(name, deps, provides) ==
    from_db(Pkg(name, <<1>>, deps, provides, <<>>, <<>>, <<>>, NoScript, NoScript, NoScript, NoScript, name))

\* b and c depend on a; d on b and c; e on d: chain and diamond.
GraphCatalog ==
    <<Node("e", <<"d">>, <<>>), Node("d", <<"b", "c">>, <<>>), Node("c", <<"a">>, <<>>),
      Node("b", <<"a">>, <<>>), Node("a", <<>>, <<>>)>>

\* x and y depend on each other; z depends on x.
CycleCatalog ==
    <<Node("x", <<"y">>, <<>>), Node("y", <<"x">>, <<>>), Node("z", <<"x">>, <<>>),
      Node("a", <<>>, <<>>)>>

\* m needs the virtual name virt, which v1 and v2 provide.
TwoProviders ==
    <<Node("m", <<"virt">>, <<>>), Node("v1", <<>>, <<"virt">>), Node("v2", <<"a">>, <<"virt">>),
      Node("a", <<>>, <<>>)>>

OneProvider == <<Node("m", <<"virt">>, <<>>), Node("v2", <<"a">>, <<"virt">>), Node("a", <<>>, <<>>)>>

NoProvider == <<Node("m", <<"virt">>, <<>>), Node("a", <<>>, <<>>)>>

\* A package named virt next to the packages that provide virt.
ExactAndProviders ==
    <<Node("v1", <<>>, <<"virt">>), Node("m", <<"virt">>, <<>>), Node("virt", <<"a">>, <<>>),
      Node("v2", <<"a">>, <<"virt">>), Node("a", <<>>, <<>>)>>

\* s provides the name it depends on; t depends on itself.
SelfCatalog ==
    <<Node("s", <<"sv">>, <<"sv">>), Node("t", <<"t">>, <<>>), Node("a", <<>>, <<>>)>>

ResolverCatalogs ==
    {GraphCatalog, CycleCatalog, TwoProviders, OneProvider, NoProvider, ExactAndProviders}

\* What may be installed when resolve is called.
ResolverInstalled ==
    {<<>>, <<Node("a", <<>>, <<>>)>>, <<Node("b", <<"a">>, <<>>), Node("a", <<>>, <<>>)>>,
     <<Node("v1", <<>>, <<"virt">>)>>, <<Node("y", <<>>, <<>>)>>}

ResolveRequests ==
    {<<"a">>, <<"c">>, <<"d">>, <<"e">>, <<"b", "c">>, <<"x">>, <<"z">>, <<"m">>,
     <<"virt">>, <<"a", "m">>, <<"nowhere">>, <<"s">>, <<"t">>, <<"a", "t">>}

InitResolve ==
    \E db \in ResolverInstalled, repo \in ResolverCatalogs :
        InitWith({"pm1"}, [k \in 1..Len(db) |-> Installed(db[k], db[k].files)],
                 repo, {}, 1, 0, 0)

\* m_resolver.resolve(package_names) (package_manager.cpp line 653): the
\* list lands in plan.to_install, the ResolveError in result.
ResolveNames(p) ==
    /\ pc[p] = "idle" /\ txLeft[p] > 0
    /\ \E package_names \in ResolveRequests :
          LET r == resolve(package_names, installed, available)
          IN /\ plan' = [plan EXCEPT ![p] =
                            [to_install |-> IF r.err = "" THEN r.sorted_list ELSE <<>>,
                             to_remove |-> <<>>]]
             /\ result' = [result EXCEPT ![p] = IF r.err = "" THEN "ok" ELSE r.err]
             /\ pre' = [pre EXCEPT ![p] = [op |-> "resolve", force |-> FALSE,
                                           names |-> package_names,
                                           skip_crypto_checks |-> FALSE,
                                           fs |-> fs, installed |-> installed,
                                           available |-> available]]
    /\ pc' = [pc EXCEPT ![p] = "done"]
    /\ UNCHANGED <<fs, installed, available, cur, backup, journal,
                   completed_installs, log, thrown, txLeft, ioFaultsLeft,
                   scriptFailsLeft, downloader, dirs>>

NextResolve == \E p \in Procs : ResolveNames(p) \/ Return(p)

SpecResolve == InitResolve /\ [][NextResolve]_vars

\* resolve over the catalogs whose dependency graph is not a DAG.
CyclicCatalogs == {CycleCatalog, SelfCatalog}

InitCyclic ==
    \E db \in ResolverInstalled, repo \in CyclicCatalogs :
        InitWith({"pm1"}, [k \in 1..Len(db) |-> Installed(db[k], db[k].files)],
                 repo, {}, 1, 0, 0)

SpecCyclic == InitCyclic /\ [][NextResolve]_vars

(***************************************************************************)
(* Vocabulary of the resolver properties.                                  *)
(***************************************************************************)
\* resolve has returned to process p.
Resolved(p) == pre[p].op = "resolve" /\ pc[p] = "done"

Satisfies(pkg, d) == pkg.name = d \/ d \in Range(pkg.provides)

SatisfiedByInstalled(d) == \E o \in 1..Len(installed) : Satisfies(installed[o], d)

NamesOf(L) == [k \in 1..Len(L) |-> L[k].name]

\* The available packages named d, and those that provide d under another
\* name.
ExactMatches(d) == {r \in Range(available) : r.name = d}
VirtualProviders(d) == {r \in Range(available) : r.name # d /\ d \in Range(r.provides)}

\* Names the resolver looks up while its list is still empty: the first
\* requested name and, if that name is not satisfied, the first
\* dependency of the package of that name.
LookedUpFirst(p) ==
    {pre[p].names[1]} \cup
    {E.deps[1] : E \in {r \in ExactMatches(pre[p].names[1]) :
                           r.deps # <<>> /\ ~SatisfiedByInstalled(pre[p].names[1])}}

(***************************************************************************)
(* C15: resolver soundness: in every list resolve returns, each dependency *)
(* of a package is the name of, or is provided by, an earlier package of   *)
(* the list or an installed package; over the diamond b, c -> a, d -> b, c *)
(* and the chain e -> d, resolve(e) with nothing installed is a,b,c,d,e.   *)
(***************************************************************************)
Sound(L, db) ==
    \A i \in 1..Len(L) :
        \A d \in Range(L[i].deps) :
            \/ \E j \in 1..(i - 1) : Satisfies(L[j], d)
            \/ \E o \in 1..Len(db) : Satisfies(db[o], d)

C15_ResolverSound ==
    \A p \in Procs :
        (Resolved(p) /\ result[p] = "ok") =>
            /\ Sound(plan[p].to_install, installed)
            /\ (available = GraphCatalog /\ installed = <<>> /\ pre[p].names = <<"e">>)
                  => NamesOf(plan[p].to_install) = <<"a", "b", "c", "d", "e">>

\* A list of five packages has been returned.
C15_Witness ==
    \E p \in Procs :
        Resolved(p) /\ result[p] = "ok" /\ Len(plan[p].to_install) = 5

(***************************************************************************)
(* C16: cycle detection: when the requested package lies on, or leads to,  *)
(* a cycle of packages none of which is installed, resolve fails with      *)
(* CircularDependency and returns no list; and it reports                  *)
(* CircularDependency only over the catalog that has a cycle.              *)
(***************************************************************************)
CycleAhead(p) ==
    /\ available = CycleCatalog
    /\ pre[p].names \in {<<"x">>, <<"z">>}
    /\ ~SatisfiedByInstalled("x") /\ ~SatisfiedByInstalled("y")

C16_CycleDetected ==
    \A p \in Procs :
        Resolved(p) =>
            /\ CycleAhead(p) => result[p] = "CircularDependency" /\ plan[p].to_install = <<>>
            /\ result[p] = "CircularDependency" => CycleAhead(p)

\* z, which depends on the cycle x <-> y, was requested.
C16_Witness ==
    \E p \in Procs :
        Resolved(p) /\ CycleAhead(p) /\ pre[p].names = <<"z">> /\ result[p] # "ok"

(***************************************************************************)
(* C17: virtual-provider disambiguation: for a looked-up name that is not  *)
(* satisfied and that no available package bears, resolve uses the         *)
(* provider when exactly one available package provides the name, fails    *)
(* with AmbiguousProvider when several do and with DependencyNotFound when *)
(* none does.                                                              *)
(***************************************************************************)
C17_VirtualProvider ==
    \A p \in Procs :
        Resolved(p) =>
            \A d \in LookedUpFirst(p) :
                (~SatisfiedByInstalled(d) /\ ExactMatches(d) = {}) =>
                    /\ Cardinality(VirtualProviders(d)) = 0 => result[p] = "DependencyNotFound"
                    /\ Cardinality(VirtualProviders(d)) > 1 => result[p] = "AmbiguousProvider"
                    /\ Cardinality(VirtualProviders(d)) = 1 =>
                          /\ result[p] = "ok"
                          /\ VirtualProviders(d) \subseteq Range(plan[p].to_install)

\* Two available packages provide the dependency of the requested package
\* and resolve has refused to choose.
C17_Witness ==
    \E p \in Procs :
        /\ Resolved(p)
        /\ \E d \in LookedUpFirst(p) :
              /\ ~SatisfiedByInstalled(d) /\ ExactMatches(d) = {}
              /\ Cardinality(VirtualProviders(d)) = 2
        /\ result[p] = "AmbiguousProvider"

(***************************************************************************)
(* C18: the exact-name match is the preferred provider: for a looked-up    *)
(* name that is not satisfied and that an available package bears, resolve *)
(* never fails with AmbiguousProvider, and the list it returns holds the   *)
(* package of that name and none of the other packages providing it.  (The *)
(* dependencies of that package and the later requested names are looked   *)
(* up in their turn: the absence of AmbiguousProvider is stated for a      *)
(* single requested name, where none of the dependencies of the package    *)
(* has a virtual provider of its own.)                                     *)
(***************************************************************************)
PlainDeps(d) == \A e \in ExactMatches(d) : \A x \in Range(e.deps) : VirtualProviders(x) = {}

C18_ExactNamePreferred ==
    \A p \in Procs :
        Resolved(p) =>
            \A d \in LookedUpFirst(p) :
                (~SatisfiedByInstalled(d) /\ ExactMatches(d) # {}) =>
                    /\ (Len(pre[p].names) = 1 /\ PlainDeps(d)) => result[p] # "AmbiguousProvider"
                    /\ result[p] = "ok" =>
                          /\ ExactMatches(d) \subseteq Range(plan[p].to_install)
                          /\ VirtualProviders(d) \cap Range(plan[p].to_install) = {}

\* The looked-up name has an exact match and two virtual providers, and
\* resolve has returned a list.
C18_Witness ==
    \E p \in Procs :
        /\ Resolved(p)
        /\ \E d \in LookedUpFirst(p) :
              /\ ~SatisfiedByInstalled(d) /\ ExactMatches(d) # {}
              /\ Cardinality(VirtualProviders(d)) = 2
        /\ result[p] = "ok"

(***************************************************************************)
(* C19: a name that an installed package bears or provides is satisfied:   *)
(* a request for that name alone returns the empty list, no returned list  *)
(* holds a package bearing or providing a requested name or a dependency   *)
(* that the installed packages satisfy, even when the available catalog    *)
(* has a package of that name.                                             *)
(***************************************************************************)
C19_InstalledSatisfies ==
    \A p \in Procs :
        (Resolved(p) /\ result[p] = "ok") =>
            LET L == plan[p].to_install
                asked == Range(pre[p].names) \cup UNION {Range(L[i].deps) : i \in 1..Len(L)}
            IN /\ (Len(pre[p].names) = 1 /\ SatisfiedByInstalled(pre[p].names[1])) => L = <<>>
               /\ \A d \in asked :
                      SatisfiedByInstalled(d) => ~\E i \in 1..Len(L) : Satisfies(L[i], d)

\* An installed package satisfies a name the catalog also has, and resolve
\* has returned a list without it; in one case the name was the request,
\* in the other the dependency of the requested package.
C19_Witness ==
    \E p \in Procs :
        /\ Resolved(p) /\ result[p] = "ok"
        /\ \/ /\ Len(pre[p].names) = 1
              /\ SatisfiedByInstalled(pre[p].names[1])
              /\ ExactMatches(pre[p].names[1]) # {}
           \/ /\ plan[p].to_install # <<>>
              /\ \E d \in Range(plan[p].to_install[1].deps) :
                    SatisfiedByInstalled(d) /\ ExactMatches(d) \cup VirtualProviders(d) # {}

(***************************************************************************)
(* The repository sync on its own: PackageManager::sync_database over      *)
(* catalogs left by earlier syncs.                                         *)
(***************************************************************************)
\* What the catalog may hold before a sync: nothing, a stale index, the
\* index of one repository only, the current index.
EarlierCatalogs ==
    {<<>>, Catalogued(<<lib0, tool>>, "core"), Catalogued(<<lib, zlib, tool>>, "core"), RepoIndex}

InitSync ==
    \E db \in InitiallyInstalled, repo \in EarlierCatalogs :
        InitWith({"pm1"}, [k \in 1..Len(db) |-> Installed(db[k], db[k].files)],
                 repo, {}, MaxTxEach, MaxIoFaults, 0)

\* PackageManager::sync_database (package_manager.cpp lines 870-873):
\* update_all(m_skip_crypto_checks).  The log keeps how each repository
\* fared and whether the signature check was skipped.
SyncDatabase(p) ==
    /\ pc[p] = "idle" /\ txLeft[p] > 0
    /\ \E skip_gpg_check \in BOOLEAN, outcomes \in SyncOutcomes, storage_throws \in Faults :
          LET r == sync_database(skip_gpg_check, outcomes, available, storage_throws)
          IN /\ available' = r.repo
             /\ result' = [result EXCEPT ![p] = IF r.ok THEN "ok" ELSE "sync_failed"]
             /\ log' = [log EXCEPT ![p] =
                          [k \in 1..Len(Repositories) |->
                              Event("sync", Repositories[k], outcomes[Repositories[k]])]
                          \o (IF skip_gpg_check THEN <<Event("skip_gpg_check", "", "")>> ELSE <<>>)
                          \o (IF storage_throws THEN <<Event("storage_throws", "", "")>> ELSE <<>>)]
             /\ ioFaultsLeft' = IF storage_throws THEN ioFaultsLeft - 1 ELSE ioFaultsLeft
             /\ pre' = [pre EXCEPT ![p] = [op |-> "sync", force |-> FALSE, names |-> <<>>,
                                           skip_crypto_checks |-> skip_gpg_check,
                                           fs |-> fs, installed |-> installed,
                                           available |-> available]]
    /\ pc' = [pc EXCEPT ![p] = "done"]
    /\ txLeft' = [txLeft EXCEPT ![p] = @ - 1]
    /\ UNCHANGED <<fs, installed, plan, cur, backup, journal, completed_installs,
                   thrown, scriptFailsLeft, downloader, dirs>>

\* Lists handed to Database::sync_repo_packages directly, as test_repo_sync
\* does: empty, one package, two releases under one name, two packages.
SyncLists ==
    {<<>>, Tagged(<<lib0>>, "core"), Tagged(<<lib, lib0>>, "core"), Tagged(<<zlib, new>>, "extra")}

\* Database::sync_repo_packages(packages) (part_008 lines 275-301); the
\* list is kept in plan.to_install.
SyncRepoPackages(p) ==
    /\ pc[p] = "idle" /\ txLeft[p] > 0
    /\ \E packages \in SyncLists, storage_throws \in Faults :
          /\ available' = sync_repo_packages(available, packages, storage_throws)
          /\ plan' = [plan EXCEPT ![p] = [to_install |-> packages, to_remove |-> <<>>]]
          /\ log' = [log EXCEPT ![p] =
                       IF storage_throws THEN <<Event("storage_throws", "", "")>> ELSE <<>>]
          /\ ioFaultsLeft' = IF storage_throws THEN ioFaultsLeft - 1 ELSE ioFaultsLeft
    /\ result' = [result EXCEPT ![p] = "ok"]
    /\ pre' = [pre EXCEPT ![p] = [op |-> "sync_repo_packages", force |-> FALSE, names |-> <<>>,
                                  skip_crypto_checks |-> FALSE,
                                  fs |-> fs, installed |-> installed,
                                  available |-> available]]
    /\ pc' = [pc EXCEPT ![p] = "done"]
    /\ txLeft' = [txLeft EXCEPT ![p] = @ - 1]
    /\ UNCHANGED <<fs, installed, cur, backup, journal, completed_installs,
                   thrown, scriptFailsLeft, downloader, dirs>>

NextSync == \E p \in Procs : SyncDatabase(p) \/ SyncRepoPackages(p) \/ Return(p)

SpecSync == InitSync /\ [][NextSync]_vars

(***************************************************************************)
(* C20: repository sync atomicity: when the download, the signature check  *)
(* or the parse of any configured repository fails during update_all, the  *)
(* sync reports failure and the available catalog is what it was before:   *)
(* find_repo_package answers the same for every name, the packages of the  *)
(* repositories that succeeded included.                                   *)
(***************************************************************************)
\* update_all has returned to process p.
Synced(p) == pre[p].op = "sync" /\ pc[p] = "done"

SkippedGpg(p) == \E k \in 1..Len(log[p]) : log[p][k].ev = "skip_gpg_check"

\* The repository has mirrors and its index did not make it through.
RepoFailed(p, repo_name) ==
    /\ repo_name # "void"
    /\ \E k \in 1..Len(log[p]) :
          /\ log[p][k].ev = "sync" /\ log[p][k].pkg = repo_name
          /\ \/ log[p][k].path \in {"download_failed", "parse_failed"}
             \/ log[p][k].path = "bad_signature" /\ ~SkippedGpg(p)

C20_SyncAtomic ==
    \A p \in Procs :
        (Synced(p) /\ \E n \in Range(Repositories) : RepoFailed(p, n)) =>
            /\ result[p] = "sync_failed"
            /\ \A name \in Range(SortedNames) :
                   find_repo_package(available, name) = find_repo_package(pre[p].available, name)

\* One repository failed, the other delivered packages the catalog did not
\* have, and the sync has returned.
C20_Witness ==
    \E p \in Procs :
        /\ Synced(p)
        /\ RepoFailed(p, "core") /\ ~RepoFailed(p, "extra")
        /\ find_repo_package(pre[p].available, "new") = <<>>
        /\ result[p] = "sync_failed"

(***************************************************************************)
(* Downloader::Impl::download_all (downloader.cpp, lines 101-281).         *)
(***************************************************************************)
\* How the transfer of one URL ends: CURLE_OK or an error.
UrlResults == {"ok", "refused", "timeout"}

\* The longest mirror list of a job and the largest batch.
MaxUrls == 2
MaxJobs == 2

UrlLists == UNION {[1..n -> UrlResults] : n \in 0..MaxUrls}

\* A DownloadJob as its caller builds it: how each of its URLs will end,
\* and whether its destination can be opened for writing.
JobRequests == [urls : UrlLists, writable : BOOLEAN]

Batches == UNION {[1..n -> JobRequests] : n \in 0..MaxJobs}

\* The set-up loop over the jobs (lines 107-138).  `mirror` is the entry of
\* mirror_tracker, counted from 1; `in_multi`: the easy handle is in the
\* multi handle; `file`: the content of destination_path; `attempts`: the
\* mirrors whose transfer has run, in order.
setup_job(request) ==
    LET job == [urls |-> request.urls, mirror |-> 1, finished |-> FALSE,
                error_message |-> "", in_multi |-> FALSE, file |-> Absent,
                attempts |-> <<>>]
    IN IF request.urls = <<>>
       THEN [job EXCEPT !.error_message = "No source URLs provided.", !.finished = TRUE]
       ELSE IF ~request.writable
       THEN [job EXCEPT !.error_message = "Could not open file for writing.", !.finished = TRUE]
       ELSE [job EXCEPT !.file = "empty", !.in_multi = TRUE]

\* The handling of one CURLMSG_DONE (lines 175-232) after the transfer of
\* the job's current mirror has run.
on_done(job) ==
    LET res == job.urls[job.mirror]
        ran == [job EXCEPT !.attempts = Append(@, job.mirror),
                           !.file = IF res = "ok" THEN "complete" ELSE "partial"]
    IN IF res = "ok"
       THEN [ran EXCEPT !.finished = TRUE, !.in_multi = FALSE]
       ELSE IF job.mirror + 1 <= Len(job.urls)
       THEN [ran EXCEPT !.mirror = @ + 1, !.file = "empty"]
       ELSE [ran EXCEPT !.mirror = @ + 1, !.finished = TRUE, !.in_multi = FALSE,
                        !.error_message = res]

\* The condition of the do-while loop (line 252).
keep_running(still_running) == still_running > 0

\* The final loop over the jobs (lines 259-278).
cleanup_job(job) ==
    IF job.error_message # "" THEN [job EXCEPT !.file = Absent, !.in_multi = FALSE]
    ELSE [job EXCEPT !.in_multi = FALSE]

InMulti(jobs) == {k \in 1..Len(jobs) : jobs[k].in_multi}

\* download_all is called with a batch: the set-up loop.
DownloadAll ==
    /\ downloader.pc = "idle"
    /\ \E batch \in Batches :
          downloader' = [pc |-> IF batch = <<>> THEN "returned" ELSE "loop",
                         jobs |-> [k \in 1..Len(batch) |-> setup_job(batch[k])],
                         still_running |-> 0, all_ok |-> TRUE]
    /\ UNCHANGED <<fs, installed, available, pc, plan, cur, backup, journal,
                   completed_installs, result, log, pre, thrown, txLeft,
                   ioFaultsLeft, scriptFailsLeft, dirs>>

\* One turn of the do-while loop (lines 153-252): curl_multi_perform, during
\* which some of the running transfers end, and the handling of their
\* messages.  A turn in which no transfer ends changes nothing.
Perform ==
    /\ downloader.pc = "loop"
    /\ \E done \in SUBSET InMulti(downloader.jobs) :
          /\ done # {} \/ InMulti(downloader.jobs) = {}
          /\ LET still_running == Cardinality(InMulti(downloader.jobs)) - Cardinality(done)
             IN downloader' =
                  [downloader EXCEPT
                      !.jobs = [k \in 1..Len(@) |-> IF k \in done THEN on_done(@[k]) ELSE @[k]],
                      !.still_running = still_running,
                      !.pc = IF keep_running(still_running) THEN "loop" ELSE "cleanup"]
    /\ UNCHANGED <<fs, installed, available, pc, plan, cur, backup, journal,
                   completed_installs, result, log, pre, thrown, txLeft,
                   ioFaultsLeft, scriptFailsLeft, dirs>>

\* The final loop and the return of all_ok (lines 259-280).
CleanupDownloads ==
    /\ downloader.pc = "cleanup"
    /\ downloader' =
          [downloader EXCEPT
              !.jobs = [k \in 1..Len(@) |-> cleanup_job(@[k])],
              !.all_ok = \A k \in 1..Len(downloader.jobs) : downloader.jobs[k].error_message = "",
              !.pc = "returned"]
    /\ UNCHANGED <<fs, installed, available, pc, plan, cur, backup, journal,
                   completed_installs, result, log, pre, thrown, txLeft,
                   ioFaultsLeft, scriptFailsLeft, dirs>>

InitDownload == InitWith({}, <<>>, <<>>, {}, 0, 0, 0)

NextDownload == DownloadAll \/ Perform \/ CleanupDownloads

SpecDownload == InitDownload /\ [][NextDownload]_vars

(***************************************************************************)
(* plan_update_transaction on its own: the planner after its repository    *)
(* sync, over installed and available releases of one package.             *)
(***************************************************************************)
\* What may be installed when the update is planned.
UpdateInstalled ==
    {<<Release(v, <<"xbin">>)>> : v \in VersionStrings}
       \cup {<<keep, Release(v, <<"xbin">>)>> : v \in VersionStrings}

\* What the available catalog may offer.
UpdateCatalogs ==
    {Catalogued(<<Release(v, f)>>, "core") : v \in VersionStrings, f \in ReleaseFiles}
       \cup {<<>>}

InitUpdate ==
    \E db \in UpdateInstalled, repo \in UpdateCatalogs, strays \in InitialStrays :
        InitWith({"pm1"}, [k \in 1..Len(db) |-> Installed(db[k], db[k].files)],
                 repo, strays, 1, 0, 0)

\* plan_update_transaction after update_all (lines 777-843): the plan lands
\* in plan, the TransactionError in result.
PlanUpdate(p) ==
    /\ pc[p] = "idle" /\ txLeft[p] > 0
    /\ LET r == plan_update_transaction(installed, available)
       IN /\ plan' = [plan EXCEPT ![p] = r.plan]
          /\ result' = [result EXCEPT ![p] = IF r.err = "" THEN "ok" ELSE r.err]
    /\ pre' = [pre EXCEPT ![p] = [op |-> "plan_update", force |-> FALSE,
                                  names |-> <<>>, skip_crypto_checks |-> FALSE,
                                  fs |-> fs, installed |-> installed,
                                  available |-> available]]
    /\ pc' = [pc EXCEPT ![p] = "done"]
    /\ txLeft' = [txLeft EXCEPT ![p] = @ - 1]
    /\ UNCHANGED <<fs, installed, available, cur, backup, journal,
                   completed_installs, log, thrown, ioFaultsLeft,
                   scriptFailsLeft, downloader, dirs>>

NextUpdate == \E p \in Procs : PlanUpdate(p) \/ Return(p)

SpecUpdate == InitUpdate /\ [][NextUpdate]_vars

(***************************************************************************)
(* Vocabulary of the download properties.                                  *)
(***************************************************************************)
Returned == downloader.pc = "returned"

\* The last transfer that ran for the job ended with CURLE_OK.
Transferred(job) ==
    job.attempts # <<>> /\ job.urls[job.attempts[Len(job.attempts)]] = "ok"

\* The set-up loop gave the job a handle and an open file.
Started(job) == job.attempts # <<>> \/ job.in_multi \/ job.file # Absent

ReportedFailed(job) == job.error_message # ""

(***************************************************************************)
(* C24: download_all returns true if and only if every job of the batch    *)
(* finished a successful transfer: it returns false when a job ended with  *)
(* an error, and it never returns true while some job has neither          *)
(* completed a transfer nor been reported as failed.                       *)
(***************************************************************************)
C24_TrueIffAllTransferred ==
    Returned =>
        (downloader.all_ok <=> \A k \in 1..Len(downloader.jobs) : Transferred(downloader.jobs[k]))

(***************************************************************************)
(* C25: per-job mirror fallback: a job tries its URLs one at a time in     *)
(* list order, the next one after a failure and on a truncated             *)
(* destination; when download_all returns, a job has succeeded iff one of  *)
(* its URLs succeeds, and a job is reported failed only after its last URL *)
(* failed, with the error of that attempt.                                 *)
(***************************************************************************)
C25_MirrorFallback ==
    \A k \in 1..Len(downloader.jobs) :
        LET job == downloader.jobs[k]
        IN /\ job.attempts = [i \in 1..Len(job.attempts) |-> i]
           /\ \A i \in 1..(Len(job.attempts) - 1) : job.urls[i] # "ok"
           /\ (job.in_multi /\ ~job.finished) => job.file = "empty"
           /\ (Returned /\ Started(job)) =>
                 /\ Transferred(job) <=> \E i \in 1..Len(job.urls) : job.urls[i] = "ok"
                 /\ ReportedFailed(job) =>
                       /\ Len(job.attempts) = Len(job.urls)
                       /\ job.error_message = job.urls[Len(job.urls)]

(***************************************************************************)
(* C26: no partial files: when download_all returns, the destination of    *)
(* every job that did not end with a successful transfer does not exist,   *)
(* and the destination of every job that did holds the complete content.   *)
(***************************************************************************)
C26_NoPartialFiles ==
    Returned =>
        \A k \in 1..Len(downloader.jobs) :
            LET job == downloader.jobs[k]
            IN IF Transferred(job) THEN job.file = "complete" ELSE job.file = Absent

(***************************************************************************)
(* Vocabulary of the sync properties.                                      *)
(***************************************************************************)
StorageThrew(p) == \E k \in 1..Len(log[p]) : log[p][k].ev = "storage_throws"

\* Every repository with mirrors downloaded, verified and parsed.
AllSucceeded(p) == \A n \in Range(Repositories) : ~RepoFailed(p, n)

WellFormed(node) == \A k \in 1..Len(RequiredFields) : RequiredFields[k] \in node.present

\* Where in the served indexes a well-formed entry of that name stands.
Origins(name) ==
    {o \in {"core", "extra"} \X (1..5) :
        /\ o[2] <= Len(ServedIndex(o[1]))
        /\ WellFormed(ServedIndex(o[1])[o[2]])
        /\ ServedIndex(o[1])[o[2]].value.name = name}

IndexEntry(o) == [ServedIndex(o[1])[o[2]].value EXCEPT !.repo_name = o[1]]

CatalogNames == Range(SortedNames) \cup {"broken", "unsigned", "nowhere"}

(***************************************************************************)
(* C21: successful repository sync: when every repository with mirrors     *)
(* downloads, verifies and parses and the database write succeeds,          *)
(* update_all returns true and find_repo_package returns, for every name of *)
(* a parsed index, an entry of an index that has the name, tagged with that *)
(* repository's name, and nothing for any other name.                       *)
(***************************************************************************)
C21_SyncCommits ==
    \A p \in Procs :
        (Synced(p) /\ AllSucceeded(p) /\ ~StorageThrew(p)) =>
            /\ result[p] = "ok"
            /\ \A name \in CatalogNames :
                   LET found == find_repo_package(available, name)
                   IN IF Origins(name) = {} THEN found = <<>>
                      ELSE /\ Len(found) = 1
                           /\ \E o \in Origins(name) : found[1] = IndexEntry(o)

\* The same with the checksum of the entries left out of the comparison.
C21_UpToChecksum ==
    \A p \in Procs :
        (Synced(p) /\ AllSucceeded(p) /\ ~StorageThrew(p)) =>
            /\ result[p] = "ok"
            /\ \A name \in CatalogNames :
                   LET found == find_repo_package(available, name)
                   IN IF Origins(name) = {} THEN found = <<>>
                      ELSE /\ Len(found) = 1
                           /\ \E o \in Origins(name) :
                                 [found[1] EXCEPT !.checksum = ""] = [IndexEntry(o) EXCEPT !.checksum = ""]

(***************************************************************************)
(* C22: one malformed record does not fail a repository: the index of      *)
(* `extra` is a sequence two of whose entries lack a required field;       *)
(* parse_repository_index returns exactly the other entries in their       *)
(* order, the repository counts as succeeded in update_all, and the        *)
(* malformed entries are never in the available catalog.                   *)
(***************************************************************************)
C22_MalformedSkipped ==
    /\ \A name \in {"broken", "unsigned"} : find_repo_package(available, name) = <<>>
    /\ \A p \in Procs :
          Synced(p) =>
              /\ ~RepoFailed(p, "extra") =>
                    parse_repository_index(ServedIndex("extra")).packages = <<app2, new, extra>>
              /\ (AllSucceeded(p) /\ ~StorageThrew(p)) =>
                    /\ result[p] = "ok"
                    /\ \A name \in {"app", "new", "extra"} :
                           /\ Len(find_repo_package(available, name)) = 1
                           /\ find_repo_package(available, name)[1].repo_name = "extra"

\* A sync over an empty catalog has gone through with the index of `extra`
\* parsed.
C22_Witness ==
    \E p \in Procs :
        /\ Synced(p) /\ AllSucceeded(p) /\ ~StorageThrew(p)
        /\ pre[p].available = <<>>
        /\ available # <<>>
        /\ \E k \in 1..Len(ServedIndex("extra")) : ~WellFormed(ServedIndex("extra")[k])

(***************************************************************************)
(* C23: sync_repo_packages is an atomic replacement: after a call with     *)
(* list L the available catalog is exactly the entries of L keyed by name  *)
(* (nothing of the previous catalog stays) or, when the storage            *)
(* transaction fails, exactly the previous catalog.                        *)
(***************************************************************************)
\* sync_repo_packages has returned to process p.
Replaced(p) == pre[p].op = "sync_repo_packages" /\ pc[p] = "done"

\* The entries of L that no later entry of the same name follows.
LastByName(L) == {L[k] : k \in {i \in 1..Len(L) : \A j \in (i + 1)..Len(L) : L[j].name # L[i].name}}

KeyedByName(repo, L) ==
    /\ Range(repo) = LastByName(L)
    /\ \A i, j \in 1..Len(repo) : repo[i].name = repo[j].name => i = j

C23_AtomicReplacement ==
    \A p \in Procs :
        Replaced(p) =>
            IF StorageThrew(p) THEN available = pre[p].available
            ELSE KeyedByName(available, plan[p].to_install)

\* The same with the checksum of the entries left out of the comparison.
C23_UpToChecksum ==
    \A p \in Procs :
        Replaced(p) =>
            IF StorageThrew(p) THEN available = pre[p].available
            ELSE KeyedByName(available, [k \in 1..Len(plan[p].to_install) |->
                                            [plan[p].to_install[k] EXCEPT !.checksum = ""]])


(***************************************************************************)
(* Integrity checks and force.                                             *)
(***************************************************************************)
\* The operations that verify archives: install and install_local_package
\* of a manager constructed without skip_crypto_checks.
Verifying(p) ==
    pre[p].op \in {"install", "install_local"} /\ ~pre[p].skip_crypto_checks

\* C27: force never weakens the integrity checks.  With skip_crypto_checks
\* off, (a) install_local_package of a package file whose SHA-256 is not
\* the checksum of its metadata answers ChecksumMismatch for force = TRUE
\* and for force = FALSE alike, (b) no install or install_local reaches
\* execute_transaction with an archive whose SHA-256 differs from the
\* checksum of its plan entry, whatever force is, and (c) an operation that
\* ended with ChecksumMismatch has moved no file under the root, has not
\* changed the installed catalog and has not entered execute_transaction.
C27_ForceKeepsIntegrity ==
    /\ \A pkg \in LocalPackages, force \in BOOLEAN :
          install_local_preflight(pkg, force, FALSE, "bad_digest", installed).err
             = "ChecksumMismatch"
    /\ \A p \in Procs :
          /\ (Verifying(p) /\ pc[p] \notin {"idle", "prepare", "done"})
                => verify_checksums(plan[p].to_install)
          /\ (Verifying(p) /\ pc[p] = "done" /\ result[p] = "ChecksumMismatch")
                => /\ fs = pre[p].fs
                   /\ installed = pre[p].installed
                   /\ log[p] = <<>>

\* A forced install, whose plan would have been refused without force,
\* has ended with ChecksumMismatch.
C27_Witness ==
    \E p \in Procs :
       /\ pc[p] = "done" /\ pre[p].op = "install" /\ pre[p].force
       /\ ~pre[p].skip_crypto_checks
       /\ result[p] = "ChecksumMismatch"
       /\ plan_install_transaction(pre[p].names, FALSE, pre[p].installed,
                                   pre[p].available, pre[p].fs).err
             \in {"FileConflict", "ConflictDetected"}

(***************************************************************************)
(* force and the pre-flight refusals.                                      *)
(***************************************************************************)
\* A forced operation of process p has returned without entering
\* execute_transaction: its result is the answer of its pre-flight phase.
ForcedDone(p, op) ==
    pc[p] = "done" /\ pre[p].op = op /\ pre[p].force /\ log[p] = <<>>

\* With force, the planners of install and remove do not refuse, and
\* install_local_package refuses neither a missing dependency nor a
\* conflicting installed package.
ForcedPlanners ==
    /\ \A p \in Procs :
          /\ ForcedDone(p, "install")
                => result[p] \notin {"FileConflict", "ConflictDetected"}
          /\ ForcedDone(p, "remove") => result[p] # "DependencyViolation"
          /\ ForcedDone(p, "install_local") => result[p] # "FileConflict"
    /\ \A package_names \in InstallRequests :
          plan_install_transaction(package_names, TRUE, installed, available, fs).err
             \notin {"FileConflict", "ConflictDetected"}
    /\ \A package_names \in RemoveRequests :
          plan_remove_transaction(package_names, TRUE, installed).err
             # "DependencyViolation"
    /\ \A pkg \in LocalPackages :
          ~is_package_installed(installed, pkg.name)
             => plan_install_local(pkg, TRUE, installed).err = ""

\* C28: force disables every pre-flight refusal.  With force = TRUE,
\* plan_install_transaction never returns FileConflict or ConflictDetected,
\* plan_remove_transaction never returns DependencyViolation, and
\* install_local_package is refused neither because the package is already
\* installed nor because a dependency is missing.
C28_ForceDisablesRefusals ==
    /\ ForcedPlanners
    /\ \A p \in Procs :
          ForcedDone(p, "install_local") => result[p] # "PackageAlreadyInstalled"

\* What holds of the code: every refusal but the one of an installed
\* package is waived; a forced install_local_package of an installed
\* package is refused with PackageAlreadyInstalled and changes nothing.
C28_ExceptAlreadyInstalled ==
    /\ ForcedPlanners
    /\ \A p \in Procs :
          (ForcedDone(p, "install_local") /\ result[p] = "PackageAlreadyInstalled")
             => /\ is_package_installed(pre[p].installed, pre[p].names[1])
                /\ fs = pre[p].fs /\ installed = pre[p].installed

(***************************************************************************)
(* Removal.                                                                *)
(***************************************************************************)
\* Process p has planned a removal without force, and every name of the
\* request was installed.
PlannedRemoval(p) ==
    /\ pre[p].op = "remove" /\ ~pre[p].force /\ pc[p] # "idle"
    /\ \A n \in Range(pre[p].names) : is_package_installed(pre[p].installed, n)

\* Some installed package that is not being removed lists a targeted name
\* in its deps.
StillRequired(p) ==
    \E r \in Range(pre[p].installed) :
       /\ r.name \notin Range(pre[p].names)
       /\ \E n \in Range(pre[p].names) : n \in Range(r.deps)

\* C29: reverse-dependency protection.  Without force, a removal of
\* installed names is refused with DependencyViolation if and only if some
\* installed package outside the names being removed lists one of them in
\* its deps; packages removed together are not checked against each other.
\* A refused removal leaves the installed catalog and every file on the
\* root as they were.
C29_ReverseDependencyProtection ==
    \A p \in Procs :
       PlannedRemoval(p) =>
          /\ (result[p] = "DependencyViolation") <=> StillRequired(p)
          /\ result[p] = "DependencyViolation"
                => /\ pc[p] = "done" /\ log[p] = <<>>
                   /\ installed = pre[p].installed
                   /\ fs = pre[p].fs

\* A removal of lib was refused while tool, which depends on it, stays.
C29_Witness ==
    \E p \in Procs :
       /\ PlannedRemoval(p) /\ pc[p] = "done"
       /\ result[p] = "DependencyViolation"
       /\ StillRequired(p)
       /\ \E r \in Range(installed) : pre[p].names[1] \in Range(r.deps)

\* A package and the package that depends on it are being removed together.
C29_Together ==
    \E p \in Procs :
       /\ PlannedRemoval(p) /\ pc[p] = "execute" /\ ~StillRequired(p)
       /\ \E r \in Range(plan[p].to_remove) :
             \E n \in Range(pre[p].names) : n \in Range(r.deps)

\* Process p's removal of installed packages has returned success after
\* execute_transaction.
RemovedOk(p) ==
    /\ pc[p] = "done" /\ pre[p].op = "remove" /\ result[p] = "ok"
    /\ log[p] # <<>>
    /\ \A n \in Range(pre[p].names) : is_package_installed(pre[p].installed, n)

\* The files the removed packages owned when the removal began.
RemovedFiles(p) ==
    UNION {Range(r.owned_files) :
             r \in {q \in Range(pre[p].installed) : q.name \in Range(pre[p].names)}}

\* The directories that held a removed file and hold no file any more.
LeftEmpty(p) ==
    {parent_path(f) : f \in RemovedFiles(p)}
       \ {parent_path(g) : g \in {h \in Paths : exists(fs, h)}}

\* After a successful remove the packages are absent from the installed
\* catalog and none of their owned files exists on the root.
C30_RecordsAndFilesGone ==
    \A p \in Procs :
       RemovedOk(p) =>
          /\ \A n \in Range(pre[p].names) : ~is_package_installed(installed, n)
          /\ \A f \in RemovedFiles(p) : ~exists(fs, f)

\* C30: after a successful remove of an installed package, the package is
\* absent from the installed catalog, none of its owned files exists on the
\* root, and every directory that the removal left empty (such as the
\* parent directory of its only file) has been removed from the root.
C30_RemoveCleansUp ==
    /\ C30_RecordsAndFilesGone
    /\ \A p \in Procs : RemovedOk(p) => LeftEmpty(p) \cap dirs = {}

(***************************************************************************)
(* The update planner.                                                     *)
(***************************************************************************)
\* Process p has planned an update.
UpdatePlanned(p) == pc[p] = "done" /\ pre[p].op = "plan_update"

\* The installed packages for which the catalog has a greater version.
Upgradable(p) ==
    {r \in Range(pre[p].installed) :
        \E q \in Range(pre[p].available) : q.name = r.name /\ Newer(q.version, r.version)}

\* C31: the upgrade decision.  plan_update_transaction schedules an
\* installed package P for removal and the available package Q of the same
\* name for install if and only if version(Q) > version(P), the versions
\* compared segment by segment as base-10 integers after zero-extending the
\* shorter one (1.10 > 1.9; 1.0 equals 1.0.0 and schedules nothing); when
\* no package qualifies the plan is empty.  (A plan refused with an error
\* schedules nothing; it is refused only when some package qualified.)
C31_UpgradeDecision ==
    /\ stoi(<<1, 0>>) = 10 /\ stoi(<<0, 9>>) = 9
    /\ \A p \in Procs :
          UpdatePlanned(p) =>
             /\ result[p] = "ok" =>
                   /\ Range(plan[p].to_remove) = Upgradable(p)
                   /\ \A r \in Upgradable(p) :
                         \E q \in Range(plan[p].to_install) :
                            /\ q \in Range(pre[p].available)
                            /\ q.name = r.name /\ Newer(q.version, r.version)
                   /\ \A q \in Range(plan[p].to_install) :
                         \A r \in Range(pre[p].installed) :
                            q.name = r.name => Newer(q.version, r.version)
             /\ Upgradable(p) = {} => result[p] = "ok" /\ is_empty(plan[p])
             /\ result[p] # "ok" => Upgradable(p) # {} /\ is_empty(plan[p])

\* Release 1.9 of u is scheduled for removal and release 1.10 for install.
C31_Witness ==
    \E p \in Procs :
       /\ UpdatePlanned(p) /\ result[p] = "ok"
       /\ \E r \in Range(plan[p].to_remove), q \in Range(plan[p].to_install) :
             /\ r.name = q.name
             /\ r.version = version_parts(<<<<1>>, <<9>>>>)
             /\ q.version = version_parts(<<<<1>>, <<1, 0>>>>)

\* Release 1.0 is installed, release 1.0.0 is offered, nothing is scheduled.
C31_EqualAfterPadding ==
    \E p \in Procs :
       /\ UpdatePlanned(p) /\ result[p] = "ok" /\ is_empty(plan[p])
       /\ \E r \in Range(pre[p].installed), q \in Range(pre[p].available) :
             /\ r.name = q.name
             /\ r.version = <<1, 0>> /\ q.version = <<1, 0, 0>>

\* The installed packages that stay: those the update does not remove.
Staying(p) == Range(pre[p].installed) \ Upgradable(p)

\* The packages the update would install: the greater releases on offer
\* (no release of this universe has a dependency).
ToInstall(p) ==
    {q \in Range(pre[p].available) :
        \E r \in Upgradable(p) : q.name = r.name /\ Newer(q.version, r.version)}

\* Some file of a package to install is owned by a package that stays.
OwnedByStaying(p) ==
    \E q \in ToInstall(p), r \in Staying(p) :
       Range(q.files) \cap Range(r.owned_files) # {}

\* Some file of a package to install lies on the root and no installed
\* package owns it.
UnownedOnRoot(p) ==
    \E q \in ToInstall(p) : \E f \in Range(q.files) :
       /\ exists(pre[p].fs, f)
       /\ \A r \in Range(pre[p].installed) : f \notin Range(r.owned_files)

\* plan_update_transaction returns FileConflict exactly when a file of a
\* package to install is owned by an installed package that stays.
C32_OwnedFilesOnly ==
    \A p \in Procs :
       UpdatePlanned(p) => ((result[p] = "FileConflict") <=> OwnedByStaying(p))

\* C32: plan_update_transaction runs the file-conflict scan of
\* plan_install_transaction, leaving out only the paths owned by packages
\* removed in the same transaction: it returns FileConflict when a file of
\* a package to install is owned by an installed package that stays, and
\* also when that file exists on the live root without being owned by any
\* installed package.
C32_UpdateFileConflicts ==
    \A p \in Procs :
       UpdatePlanned(p) =>
          ((result[p] = "FileConflict") <=> (OwnedByStaying(p) \/ UnownedOnRoot(p)))

(***************************************************************************)
(* The order of rollback_transaction.                                      *)
(***************************************************************************)
\* The paths of process p's events named in `evs`, in the order they
\* happened.
PathsOf(p, evs) ==
    LET hits == SelectSeq(log[p], LAMBDA e : e.ev \in evs)
    IN [k \in 1..Len(hits) |-> hits[k].path]

Moved(p) == PathsOf(p, {"move"})

Deleted(p) == PathsOf(p, {"rollback_remove", "rollback_remove_failed"})

Restored(p) == PathsOf(p, {"rollback_restore"})

\* C33: the order of rollback.  rollback_transaction first deletes every
\* path of new_files_committed, newest first, and only then moves the
\* backups back to their original paths; a path that the failed
\* transaction had both backed up (old version) and newly installed (new
\* version) ends with its original content.
C33_RollbackOrder ==
    \A p \in Procs :
       /\ \A k \in 1..Len(Deleted(p)) :
             Deleted(p)[k] = Moved(p)[Len(Moved(p)) - k + 1]
       /\ \A a, b \in 1..Len(log[p]) :
             (/\ log[p][a].ev \in {"rollback_remove", "rollback_remove_failed"}
              /\ log[p][b].ev = "rollback_restore") => a < b
       /\ (pc[p] = "rollback_old" \/ Restored(p) # <<>>)
             => Len(Deleted(p)) = Len(Moved(p))
       /\ \A f \in Range(Restored(p)) \cap Range(Moved(p)) :
             fs[f] = pre[p].fs[f] /\ pre[p].fs[f] # Absent

\* A rolled-back update had moved the old bin to the backup and the new
\* bin onto the root; bin has its original content again.
C33_Witness ==
    \E p \in Procs : \E f \in Range(Restored(p)) \cap Range(Moved(p)) :
       /\ pc[p] = "done"
       /\ f \in journal[p].old_files_backed_up
       /\ fs[f] = pre[p].fs[f]
       /\ \E q \in Range(plan[p].to_install) : ArchiveDigest(q) # pre[p].fs[f]

(***************************************************************************)
(* skip_crypto_checks.                                                     *)
(***************************************************************************)
\* The ways the repositories may fare in which nothing but a signature is
\* wrong, and those among them where a signature is wrong.
SignatureOnly == [Range(Repositories) -> {"ok", "bad_signature"}]

BadSignature ==
    {o \in SignatureOnly :
        \E n \in Range(Repositories) : mirror_urls(n) # <<>> /\ o[n] = "bad_signature"}

\* An operation of process p that downloads or reads archives to install.
Installing(p) == pre[p].op \in {"install", "install_local", "update"}

\* sync_database verifies index signatures exactly when the manager was
\* constructed with skip_crypto_checks = false.
SyncDatabaseGated ==
    /\ \A o \in SignatureOnly : sync_database(TRUE, o, available, FALSE).ok
    /\ \A o \in BadSignature : ~sync_database(FALSE, o, available, FALSE).ok

\* Archives are verified against their checksums exactly when the manager
\* was constructed with skip_crypto_checks = false.
ChecksumGated ==
    \A p \in Procs :
       /\ (Installing(p) /\ pre[p].skip_crypto_checks)
             => result[p] # "ChecksumMismatch"
       /\ (Installing(p) /\ ~pre[p].skip_crypto_checks
               /\ pc[p] \notin {"idle", "prepare", "done"})
             => verify_checksums(plan[p].to_install)

\* Everything of the claim but the sync of plan_update_transaction, which
\* verifies signatures whatever the manager was constructed with.
C34_ExceptUpdateSync ==
    /\ SyncDatabaseGated
    /\ ChecksumGated
    /\ \A o \in BadSignature :
          ~plan_update_sync(TRUE, o, available).ok /\ ~plan_update_sync(FALSE, o, available).ok

\* C34: skip_crypto_checks disables both verifications on every path.  A
\* manager constructed with skip_crypto_checks = true verifies no signature
\* in any repository sync it performs (sync_database and the sync at the
\* start of plan_update_transaction) and no checksum in any install; a
\* manager constructed with false performs both verifications.
C34_SkipCryptoEverywhere ==
    /\ SyncDatabaseGated
    /\ ChecksumGated
    /\ \A o \in SignatureOnly : plan_update_sync(TRUE, o, available).ok
    /\ \A o \in BadSignature : ~plan_update_sync(FALSE, o, available).ok

(***************************************************************************)
(* Dependency closure of the installed set.                                *)
(***************************************************************************)
\* Every dep of every installed package is the name of, or is provided by,
\* an installed package.
Closed(db) ==
    \A r \in Range(db) : \A d \in Range(r.deps) :
       \E q \in Range(db) : q.name = d \/ d \in Range(q.provides)

\* Process p's install, remove or update, run without force, has returned
\* success.
Succeeded(p) ==
    /\ pc[p] = "done" /\ result[p] = "ok" /\ ~pre[p].force
    /\ pre[p].op \in {"install", "remove", "update"}

\* C35: the dependency closure of the installed set is preserved.  If every
\* dep of every installed package was the name of, or provided by, an
\* installed package when a transaction began, then after a successful
\* install, remove or update run without force the same holds, also when
\* the install removed packages through replaces and when the removed
\* package satisfied a dep only through provides.
C35_ClosurePreserved ==
    \A p \in Procs :
       (Succeeded(p) /\ Closed(pre[p].installed)) => Closed(installed)

(***************************************************************************)
(* Completion of download_all.                                             *)
(***************************************************************************)
\* The job has tried every URL of its list, in order.
Exhausted(job) == job.attempts = [k \in 1..Len(job.urls) |-> k]

\* C36: when download_all returns, every job of the batch has finished =
\* true: it has completed a transfer, or exhausted its URL list, or could
\* not be set up.  In particular, when the transfer that fails is the last
\* one still running and its job has a further mirror, that mirror is
\* attempted before download_all returns.
C36_EveryJobFinished ==
    Returned =>
       \A k \in 1..Len(downloader.jobs) :
          LET job == downloader.jobs[k]
          IN /\ job.finished
             /\ Transferred(job) \/ Exhausted(job) \/ ~Started(job)

(***************************************************************************)
(* What update_all reports.                                                *)
(***************************************************************************)
\* Packages were obtained from every repository, and writing them to the
\* available catalog failed.
WriteFailed(p) == Synced(p) /\ AllSucceeded(p) /\ StorageThrew(p)

\* A failed write leaves the available catalog as it was.
C37_RolledBack ==
    \A p \in Procs : WriteFailed(p) => available = pre[p].available

\* C37: update_all reports success only when the catalog really was
\* committed.  If packages were obtained from every repository but writing
\* them to the available catalog fails (the storage transaction is rolled
\* back), update_all does not return true.
C37_SuccessMeansCommitted ==
    \A p \in Procs : WriteFailed(p) => result[p] # "ok"

(***************************************************************************)
(* Termination of resolve.                                                 *)
(***************************************************************************)
\* The dependency edges of a catalog.
RECURSIVE TotalDeps(_)
TotalDeps(repo) ==
    IF repo = <<>> THEN 0 ELSE Len(Head(repo).deps) + TotalDeps(Tail(repo))

\* C38: resolve terminates.  For every available and installed catalog and
\* every request list, catalogs with cycles, self-dependencies and packages
\* that provide their own dependency included, resolve returns a list or
\* an error after finitely many dfs_visit calls: at most one per requested
\* name and one per dependency edge of the catalog, with nothing left on
\* the DFS stack.
C38_ResolveTerminates ==
    \A p \in Procs :
       Resolved(p) =>
          LET r == resolve(pre[p].names, pre[p].installed, pre[p].available)
          IN /\ r.err \in {"", "DependencyNotFound", "CircularDependency", "AmbiguousProvider"}
             /\ result[p] = (IF r.err = "" THEN "ok" ELSE r.err)
             /\ r.calls <= Len(pre[p].names) + TotalDeps(pre[p].available)
             /\ r.visiting = {}

\* resolve has answered a request for a package that provides the name it
\* depends on.
C38_Witness ==
    \E p \in Procs :
       /\ Resolved(p) /\ result[p] = "CircularDependency"
       /\ \E q \in Range(pre[p].available) :
             /\ q.name = pre[p].names[1]
             /\ Range(q.deps) \cap Range(q.provides) # {}

(***************************************************************************)
(* The journal of execute_transaction.                                     *)
(***************************************************************************)
\* Process p is inside the try block of execute_transaction and has not
\* yet reached the end of the database commit.
BeforeCommit(p) == pc[p] \in {"backup", "pre_remove", "install", "move", "commit"}

BackedUp(p) == PathsOf(p, {"backup"})

\* What the journal says is what the transaction did: the paths moved onto
\* the root are new_files_committed, in order, and lie on the root; the
\* paths moved off the root are the keys of old_files_backed_up, and the
\* backup directory holds for each of them the file that lay on the root
\* when the transaction began.
JournalMatches(p) ==
    /\ journal[p].new_files_committed = Moved(p)
    /\ \A f \in Range(Moved(p)) : exists(fs, f)
    /\ journal[p].old_files_backed_up = Range(BackedUp(p))
    /\ \A f \in Range(BackedUp(p)) :
          /\ exists(pre[p].fs, f)
          /\ backup[p][f] = pre[p].fs[f]

====
